---- MODULE Spec2Model ----
(***************************************************************************)
(* State-machine model of the PING token indexer (Envio handlers):         *)
(* the Transfer handler, the Uniswap V3 factory / pool handlers and the    *)
(* Uniswap V4 pool-manager handlers, over the entity store they share.     *)
(***************************************************************************)
EXTENDS Integers, Sequences, FiniteSets, TLC

VARIABLES
    TokenStore,               \* context.Token               id -> Token
    AccountStore,             \* context.Account             id -> Account
    TransferStore,            \* context.Transfer            id -> Transfer
    DailyTokenActivityStore,  \* context.DailyTokenActivity  id -> DailyTokenActivity
    PoolStore,                \* context.Pool                id -> Pool
    SwapStore,                \* context.Swap                id -> Swap
    DailyPoolActivityStore,   \* context.DailyPoolActivity   id -> DailyPoolActivity
    PoolV4Store,              \* context.PoolV4              id -> PoolV4
    PoolV4RegistryStore,      \* context.PoolV4Registry      id -> PoolV4Registry
    SwapV4Store,              \* context.SwapV4              id -> SwapV4
    ModifyLiquidityV4Store,   \* context.ModifyLiquidityV4   id -> ModifyLiquidityV4
    registeredPools,          \* addresses passed to context.addUniswapV3Pool
    seq,                      \* number of events committed so far
    now,                      \* block timestamp of the latest block
    last                      \* the latest handler invocation and what it issued

tokenVars == <<TokenStore, AccountStore, TransferStore, DailyTokenActivityStore>>
v3Vars    == <<PoolStore, SwapStore, DailyPoolActivityStore>>
v4Vars    == <<PoolV4Store, PoolV4RegistryStore, SwapV4Store, ModifyLiquidityV4Store>>
store     == <<tokenVars, v3Vars, v4Vars>>
vars      == <<store, registeredPools, seq, now, last>>

-----------------------------------------------------------------------------
(* Bounds of the model *)

MaxEvents    == 3    \* handler invocations explored per behaviour
LogsPerBlock == 2    \* events delivered per block
QBits        == 8    \* fractional bits of the model's sqrt prices (96 in the code)
MaxDecimals  == 30   \* largest token decimals passed to convertTokenToDecimal

-----------------------------------------------------------------------------
(* utils/constants *)

PING_TOKEN_ADDRESS == "0xd85c31854c2B0Fb40aaA9E2Fc4Da23C21f829d46"
ADDRESS_ZERO       == "0x0000000000000000000000000000000000000000"
ZERO_BI == 0
ONE_BI  == 1
TOKEN_SYMBOL   == "PING"
TOKEN_NAME     == "Ping"
TOKEN_DECIMALS == 18
POOL_RELATION_BUY  == "BUY"
POOL_RELATION_SELL == "SELL"
POOL_RELATION_NONE == "NONE"

\* An optional field: undefined, or a value.
undefined == <<>>
Some(v)   == <<v>>

-----------------------------------------------------------------------------
(* Addresses.  The addresses of the model are the two program constants     *)
(* and short stand-ins for the other contracts and users; some are written  *)
(* in mixed (checksum) case, as events deliver them.                        *)

USDC_ADDRESS  == "0x833589fCD6eDb6E08f4c7C32D4f71b54bdA02913"
WETH_ADDRESS  == "0x4200000000000000000000000000000000000006"
POOL_A        == "0xBc51DB8aEC659027AE0B0E468C0735418161A780"
POOL_B        == "0xb0b0000000000000000000000000000000000002"
USER_A        == "0xA11CE00000000000000000000000000000000001"
USER_B        == "0xb0b0000000000000000000000000000000000001"

\* String.prototype.toLowerCase over the strings of the model.
LowerCaseTable ==
    [s \in {PING_TOKEN_ADDRESS, USDC_ADDRESS, POOL_A, USER_A} |->
        CASE s = PING_TOKEN_ADDRESS -> "0xd85c31854c2b0fb40aaa9e2fc4da23c21f829d46"
          [] s = USDC_ADDRESS       -> "0x833589fcd6edb6e08f4c7c32d4f71b54bda02913"
          [] s = POOL_A             -> "0xbc51db8aec659027ae0b0e468c0735418161a780"
          [] s = USER_A             -> "0xa11ce00000000000000000000000000000000001"]

toLowerCase(s) == IF s \in DOMAIN LowerCaseTable THEN LowerCaseTable[s] ELSE s

\* An address kept in the case the event carries it in.
normalizeAddressVerbatim(address) == address

normalizeAddress(address) == toLowerCase(address)

-----------------------------------------------------------------------------
(* BigDecimal: the exact decimal m * 10^(-e), kept normalised (m has no     *)
(* trailing zero; zero is m = 0, e = 0).                                    *)

RECURSIVE Pow10(_)
Pow10(n) == IF n <= 0 THEN 1 ELSE 10 * Pow10(n - 1)

RECURSIVE BDNormalize(_)
BDNormalize(x) ==
    IF x.m = 0 THEN [m |-> 0, e |-> 0]
    ELSE IF x.m % 10 = 0 THEN BDNormalize([m |-> x.m \div 10, e |-> x.e - 1])
    ELSE x

BigDecimal(n) == BDNormalize([m |-> n, e |-> 0])

ZERO_BD == BigDecimal(0)
ONE_BD  == BigDecimal(1)

BDMax(a, b) == IF a >= b THEN a ELSE b

BDplus(a, b) ==
    IF a.m = 0 THEN b
    ELSE IF b.m = 0 THEN a
    ELSE LET e == BDMax(a.e, b.e)
         IN  BDNormalize([m |-> a.m * Pow10(e - a.e) + b.m * Pow10(e - b.e), e |-> e])

BDnegated(a) == [m |-> 0 - a.m, e |-> a.e]

BDminus(a, b) == BDplus(a, BDnegated(b))

BDtimes(a, b) == BDNormalize([m |-> a.m * b.m, e |-> a.e + b.e])

\* Division by a power of ten (the only divisor the handlers use): exact.
BDdiv(a, b) == BDNormalize([m |-> a.m, e |-> a.e - b.e])

BDgt(a, b)  == BDminus(a, b).m > 0
BDlte(a, b) == BDminus(a, b).m <= 0
BDeq(a, b)  == BDminus(a, b).m = 0

-----------------------------------------------------------------------------
(* utils/index *)

\* "1" followed by `decimals` zeros, parsed as a BigDecimal.
\* The loop of exponentToBigDecimal run once too often.
exponentToBigDecimalOffByOne(decimals) == [m |-> 1, e |-> 0 - (decimals + 1)]

exponentToBigDecimal(decimals) == [m |-> 1, e |-> 0 - decimals]

convertTokenToDecimal(tokenAmount, decimals) ==
    IF decimals = ZERO_BI
    THEN BigDecimal(tokenAmount)
    ELSE BDdiv(BigDecimal(tokenAmount), exponentToBigDecimal(decimals))

SECONDS_PER_DAY == 86400

\* new Date(ts * 1000): the UTC calendar date <<year, month, day>>.
UTCDate(timestamp) ==
    LET z   == (timestamp \div SECONDS_PER_DAY) + 719468
        era == z \div 146097
        doe == z - era * 146097
        yoe == (doe - doe \div 1460 + doe \div 36524 - doe \div 146096) \div 365
        doy == doe - (365 * yoe + yoe \div 4 - yoe \div 100)
        mp  == (5 * doy + 2) \div 153
        d   == doy - (153 * mp + 2) \div 5 + 1
        mo  == IF mp < 10 THEN mp + 3 ELSE mp - 9
        y   == yoe + era * 400 + (IF mo <= 2 THEN 1 ELSE 0)
    IN  <<y, mo, d>>

\* A day id that leaves out the day of the month.
getDayIdMonthly(timestamp) == <<UTCDate(timestamp)[1], UTCDate(timestamp)[2]>>

\* `${year}-${month}-${day}`, month and day padded to two digits.
getDayId(timestamp) == UTCDate(timestamp)

\* date.setUTCHours(0, 0, 0, 0), back in seconds.
getDayStartTimestamp(timestamp) ==
    timestamp - (timestamp % SECONDS_PER_DAY)

-----------------------------------------------------------------------------
(* The entity store facade: get / set by id.                                *)

Has(s, id) == id \in DOMAIN s
Put(s, entity) == [k \in DOMAIN s \cup {entity.id} |-> IF k = entity.id THEN entity ELSE s[k]]

\* Position of the next event in the chain's log, and its transaction.
BlockOf(n)    == 1 + (n \div LogsPerBlock)
LogIndexOf(n) == n % LogsPerBlock
TxHashOf(n)   == <<"tx", BlockOf(n)>>

\* Timestamps a block may carry: the last second of a UTC day and the next.
Timestamps == {2 * SECONDS_PER_DAY - 1, 2 * SECONDS_PER_DAY}

\* The block timestamps the next event may carry: a new block does not go
\* back in time, a later log of the same block shares its block's timestamp.
NextTimestamps ==
    IF LogIndexOf(seq) = 0 THEN {t \in Timestamps : t >= now} ELSE {now}

\* One handler invocation: the handler, the pass, whether it logged a warning,
\* the entity kinds it issued a set for, whether it threw, and the event.
Invocation(op, isPreload, warned, writes, ev) ==
    [op |-> op, isPreload |-> isPreload, warned |-> warned, writes |-> writes,
     threw |-> FALSE, seq |-> seq, ev |-> ev]

-----------------------------------------------------------------------------
(* Ping.Transfer.handler *)

\* poolRelatedType: the check of the receiver comes second and overrides.
TransferPoolRelatedType(fromPool, toPool) ==
    IF toPool THEN POOL_RELATION_SELL
    ELSE IF fromPool THEN POOL_RELATION_BUY
    ELSE POOL_RELATION_NONE

\* relatedPool?.id
TransferRelatedPoolId(chainId, fromAddress, toAddress, fromPool, toPool) ==
    IF toPool THEN Some(<<chainId, toAddress>>)
    ELSE IF fromPool THEN Some(<<chainId, fromAddress>>)
    ELSE undefined

\* Whether the handler upserts the Account of one side of the transfer.
\* An upsert guard without the zero-address exclusion.
TransferTouchesAccountAnyAddress(address, isPool) == ~isPool

TransferTouchesAccount(address, isPool) ==
    address # ADDRESS_ZERO /\ ~isPool

\* The sender's part of holderCountDelta.
TransferSenderDelta(fromAddress, fromPool, fromId, transferValue) ==
    IF fromAddress # ADDRESS_ZERO /\ ~fromPool /\ Has(AccountStore, fromId)
    THEN LET oldBalance == AccountStore[fromId].balance
             newBalance == BDminus(oldBalance, transferValue)
         IN  IF BDgt(oldBalance, ZERO_BD) /\ BDlte(newBalance, ZERO_BD) THEN -1 ELSE 0
    ELSE 0

\* The receiver's part of holderCountDelta.
TransferReceiverDelta(toAddress, toPool, toId, transferValue) ==
    IF toAddress # ADDRESS_ZERO /\ ~toPool
    THEN LET oldBalance == IF Has(AccountStore, toId)
                           THEN AccountStore[toId].balance ELSE ZERO_BD
             newBalance == BDplus(oldBalance, transferValue)
         IN  IF BDlte(oldBalance, ZERO_BD) /\ BDgt(newBalance, ZERO_BD) THEN 1 ELSE 0
    ELSE 0

\* A Token created without counting the transfer that creates it.
TransferTokenEntityUncountedFirst(tokenId, chainId, transferValue, holderCountDelta) ==
    IF Has(TokenStore, tokenId)
    THEN LET token == TokenStore[tokenId]
         IN  [token EXCEPT
                !.totalTransfers = token.totalTransfers + ONE_BI,
                !.totalVolume    = BDplus(token.totalVolume, transferValue),
                !.holderCount    = token.holderCount + holderCountDelta]
    ELSE [id             |-> tokenId,
          chainId        |-> chainId,
          address        |-> PING_TOKEN_ADDRESS,
          symbol         |-> TOKEN_SYMBOL,
          name           |-> TOKEN_NAME,
          decimals       |-> TOKEN_DECIMALS,
          totalSupply    |-> ZERO_BI,
          totalTransfers |-> ZERO_BI,
          totalVolume    |-> transferValue,
          holderCount    |-> IF holderCountDelta > 0 THEN holderCountDelta ELSE ZERO_BI]

TransferTokenEntity(tokenId, chainId, transferValue, holderCountDelta) ==
    IF Has(TokenStore, tokenId)
    THEN LET token == TokenStore[tokenId]
         IN  [token EXCEPT
                !.totalTransfers = token.totalTransfers + ONE_BI,
                !.totalVolume    = BDplus(token.totalVolume, transferValue),
                !.holderCount    = token.holderCount + holderCountDelta]
    ELSE [id             |-> tokenId,
          chainId        |-> chainId,
          address        |-> PING_TOKEN_ADDRESS,
          symbol         |-> TOKEN_SYMBOL,
          name           |-> TOKEN_NAME,
          decimals       |-> TOKEN_DECIMALS,
          totalSupply    |-> ZERO_BI,
          totalTransfers |-> ONE_BI,
          totalVolume    |-> transferValue,
          holderCount    |-> IF holderCountDelta > 0 THEN holderCountDelta ELSE ZERO_BI]

\* A sender update that counts every transfer as a sell.
TransferUpdatedFromAccountAlwaysSell(chainId, fromAddress, transferValue, poolRelatedType, timestamp, txHash) ==
    LET id     == <<chainId, fromAddress>>
        isSell == TRUE
    IN  IF Has(AccountStore, id)
        THEN LET fromAccount == AccountStore[id]
             IN  [fromAccount EXCEPT
                    !.balance          = BDminus(fromAccount.balance, transferValue),
                    !.totalSent        = BDplus(fromAccount.totalSent, transferValue),
                    !.transferCount    = fromAccount.transferCount + ONE_BI,
                    !.lastTransferAt   = timestamp,
                    !.lastTransferHash = txHash,
                    !.lastSellAt       = IF isSell THEN Some(timestamp) ELSE fromAccount.lastSellAt,
                    !.lastSellHash     = IF isSell THEN Some(txHash) ELSE fromAccount.lastSellHash,
                    !.totalSells       = IF isSell THEN fromAccount.totalSells + ONE_BI
                                         ELSE fromAccount.totalSells,
                    !.totalSellVolume  = IF isSell
                                         THEN BDplus(fromAccount.totalSellVolume, transferValue)
                                         ELSE fromAccount.totalSellVolume]
        ELSE [id               |-> id,
              chainId          |-> chainId,
              address          |-> fromAddress,
              balance          |-> BDminus(ZERO_BD, transferValue),
              totalSent        |-> transferValue,
              totalReceived    |-> ZERO_BD,
              transferCount    |-> ONE_BI,
              firstTransferAt  |-> timestamp,
              lastTransferAt   |-> timestamp,
              lastTransferHash |-> txHash,
              lastBuyAt        |-> undefined,
              lastBuyHash      |-> undefined,
              lastSellAt       |-> IF isSell THEN Some(timestamp) ELSE undefined,
              lastSellHash     |-> IF isSell THEN Some(txHash) ELSE undefined,
              totalBuys        |-> ZERO_BI,
              totalSells       |-> IF isSell THEN ONE_BI ELSE ZERO_BI,
              totalBuyVolume   |-> ZERO_BD,
              totalSellVolume  |-> IF isSell THEN transferValue ELSE ZERO_BD]

TransferUpdatedFromAccount(chainId, fromAddress, transferValue, poolRelatedType, timestamp, txHash) ==
    LET id     == <<chainId, fromAddress>>
        isSell == poolRelatedType = POOL_RELATION_SELL
    IN  IF Has(AccountStore, id)
        THEN LET fromAccount == AccountStore[id]
             IN  [fromAccount EXCEPT
                    !.balance          = BDminus(fromAccount.balance, transferValue),
                    !.totalSent        = BDplus(fromAccount.totalSent, transferValue),
                    !.transferCount    = fromAccount.transferCount + ONE_BI,
                    !.lastTransferAt   = timestamp,
                    !.lastTransferHash = txHash,
                    !.lastSellAt       = IF isSell THEN Some(timestamp) ELSE fromAccount.lastSellAt,
                    !.lastSellHash     = IF isSell THEN Some(txHash) ELSE fromAccount.lastSellHash,
                    !.totalSells       = IF isSell THEN fromAccount.totalSells + ONE_BI
                                         ELSE fromAccount.totalSells,
                    !.totalSellVolume  = IF isSell
                                         THEN BDplus(fromAccount.totalSellVolume, transferValue)
                                         ELSE fromAccount.totalSellVolume]
        ELSE [id               |-> id,
              chainId          |-> chainId,
              address          |-> fromAddress,
              balance          |-> BDminus(ZERO_BD, transferValue),
              totalSent        |-> transferValue,
              totalReceived    |-> ZERO_BD,
              transferCount    |-> ONE_BI,
              firstTransferAt  |-> timestamp,
              lastTransferAt   |-> timestamp,
              lastTransferHash |-> txHash,
              lastBuyAt        |-> undefined,
              lastBuyHash      |-> undefined,
              lastSellAt       |-> IF isSell THEN Some(timestamp) ELSE undefined,
              lastSellHash     |-> IF isSell THEN Some(txHash) ELSE undefined,
              totalBuys        |-> ZERO_BI,
              totalSells       |-> IF isSell THEN ONE_BI ELSE ZERO_BI,
              totalBuyVolume   |-> ZERO_BD,
              totalSellVolume  |-> IF isSell THEN transferValue ELSE ZERO_BD]

\* A receiver update that leaves totalReceived of an existing Account alone.
TransferUpdatedToAccountNoReceived(chainId, toAddress, transferValue, poolRelatedType, timestamp, txHash) ==
    LET id    == <<chainId, toAddress>>
        isBuy == poolRelatedType = POOL_RELATION_BUY
    IN  IF Has(AccountStore, id)
        THEN LET toAccount == AccountStore[id]
             IN  [toAccount EXCEPT
                    !.balance          = BDplus(toAccount.balance, transferValue),
                    !.transferCount    = toAccount.transferCount + ONE_BI,
                    !.lastTransferAt   = timestamp,
                    !.lastTransferHash = txHash,
                    !.lastBuyAt        = IF isBuy THEN Some(timestamp) ELSE toAccount.lastBuyAt,
                    !.lastBuyHash      = IF isBuy THEN Some(txHash) ELSE toAccount.lastBuyHash,
                    !.totalBuys        = IF isBuy THEN toAccount.totalBuys + ONE_BI
                                         ELSE toAccount.totalBuys,
                    !.totalBuyVolume   = IF isBuy
                                         THEN BDplus(toAccount.totalBuyVolume, transferValue)
                                         ELSE toAccount.totalBuyVolume]
        ELSE [id               |-> id,
              chainId          |-> chainId,
              address          |-> toAddress,
              balance          |-> transferValue,
              totalSent        |-> ZERO_BD,
              totalReceived    |-> transferValue,
              transferCount    |-> ONE_BI,
              firstTransferAt  |-> timestamp,
              lastTransferAt   |-> timestamp,
              lastTransferHash |-> txHash,
              lastBuyAt        |-> IF isBuy THEN Some(timestamp) ELSE undefined,
              lastBuyHash      |-> IF isBuy THEN Some(txHash) ELSE undefined,
              lastSellAt       |-> undefined,
              lastSellHash     |-> undefined,
              totalBuys        |-> IF isBuy THEN ONE_BI ELSE ZERO_BI,
              totalSells       |-> ZERO_BI,
              totalBuyVolume   |-> IF isBuy THEN transferValue ELSE ZERO_BD,
              totalSellVolume  |-> ZERO_BD]

TransferUpdatedToAccount(chainId, toAddress, transferValue, poolRelatedType, timestamp, txHash) ==
    LET id    == <<chainId, toAddress>>
        isBuy == poolRelatedType = POOL_RELATION_BUY
    IN  IF Has(AccountStore, id)
        THEN LET toAccount == AccountStore[id]
             IN  [toAccount EXCEPT
                    !.balance          = BDplus(toAccount.balance, transferValue),
                    !.totalReceived    = BDplus(toAccount.totalReceived, transferValue),
                    !.transferCount    = toAccount.transferCount + ONE_BI,
                    !.lastTransferAt   = timestamp,
                    !.lastTransferHash = txHash,
                    !.lastBuyAt        = IF isBuy THEN Some(timestamp) ELSE toAccount.lastBuyAt,
                    !.lastBuyHash      = IF isBuy THEN Some(txHash) ELSE toAccount.lastBuyHash,
                    !.totalBuys        = IF isBuy THEN toAccount.totalBuys + ONE_BI
                                         ELSE toAccount.totalBuys,
                    !.totalBuyVolume   = IF isBuy
                                         THEN BDplus(toAccount.totalBuyVolume, transferValue)
                                         ELSE toAccount.totalBuyVolume]
        ELSE [id               |-> id,
              chainId          |-> chainId,
              address          |-> toAddress,
              balance          |-> transferValue,
              totalSent        |-> ZERO_BD,
              totalReceived    |-> transferValue,
              transferCount    |-> ONE_BI,
              firstTransferAt  |-> timestamp,
              lastTransferAt   |-> timestamp,
              lastTransferHash |-> txHash,
              lastBuyAt        |-> IF isBuy THEN Some(timestamp) ELSE undefined,
              lastBuyHash      |-> IF isBuy THEN Some(txHash) ELSE undefined,
              lastSellAt       |-> undefined,
              lastSellHash     |-> undefined,
              totalBuys        |-> IF isBuy THEN ONE_BI ELSE ZERO_BI,
              totalSells       |-> ZERO_BI,
              totalBuyVolume   |-> IF isBuy THEN transferValue ELSE ZERO_BD,
              totalSellVolume  |-> ZERO_BD]

TransferEntity(chainId, blockNumber, logIndex, txHash, timestamp, fromAddress, toAddress, transferValue, fromPool, toPool) ==
    [id              |-> <<chainId, blockNumber, logIndex>>,
     chainId         |-> chainId,
     transactionHash |-> txHash,
     timestamp       |-> timestamp,
     blockNumber     |-> blockNumber,
     logIndex        |-> logIndex,
     from_id         |-> <<chainId, fromAddress>>,
     to_id           |-> <<chainId, toAddress>>,
     value           |-> transferValue,
     isPoolRelated   |-> fromPool \/ toPool,
     poolRelatedType |-> TransferPoolRelatedType(fromPool, toPool),
     relatedPool_id  |-> TransferRelatedPoolId(chainId, fromAddress, toAddress, fromPool, toPool)]

TransferUpdatedDailyActivity(chainId, timestamp, transferValue, isNewAccount) ==
    LET dayId == getDayId(timestamp)
        id    == <<chainId, dayId>>
    IN  IF Has(DailyTokenActivityStore, id)
        THEN LET dailyActivity == DailyTokenActivityStore[id]
             IN  [dailyActivity EXCEPT
                    !.dailyTransfers = dailyActivity.dailyTransfers + ONE_BI,
                    !.dailyVolume    = BDplus(dailyActivity.dailyVolume, transferValue),
                    !.newAccounts    = IF isNewAccount THEN dailyActivity.newAccounts + ONE_BI
                                       ELSE dailyActivity.newAccounts]
        ELSE [id                  |-> id,
              chainId             |-> chainId,
              date                |-> dayId,
              timestamp           |-> getDayStartTimestamp(timestamp),
              dailyTransfers      |-> ONE_BI,
              dailyVolume         |-> transferValue,
              dailyActiveAccounts |-> ONE_BI,
              newAccounts         |-> IF isNewAccount THEN ONE_BI ELSE ZERO_BI]

PingTransfer(chainId, from, to, value, timestamp, isPreload) ==
    LET ev == [chainId |-> chainId, from |-> from, to |-> to, value |-> value,
               timestamp |-> timestamp, blockNumber |-> BlockOf(seq),
               logIndex |-> LogIndexOf(seq), txHash |-> TxHashOf(seq)]
        tokenId       == <<chainId, normalizeAddress(PING_TOKEN_ADDRESS)>>
        fromAddress   == normalizeAddress(from)
        toAddress     == normalizeAddress(to)
        fromId        == <<chainId, fromAddress>>
        toId          == <<chainId, toAddress>>
        transferValue == convertTokenToDecimal(value, TOKEN_DECIMALS)
        fromPool      == Has(PoolStore, fromId)
        toPool        == Has(PoolStore, toId)
        poolRelatedType  == TransferPoolRelatedType(fromPool, toPool)
        holderCountDelta == TransferSenderDelta(fromAddress, fromPool, fromId, transferValue)
                            + TransferReceiverDelta(toAddress, toPool, toId, transferValue)
        isNewAccount  == ~Has(AccountStore, toId) /\ toAddress # ADDRESS_ZERO /\ ~toPool
        setsFrom      == TransferTouchesAccount(fromAddress, fromPool)
        setsTo        == TransferTouchesAccount(toAddress, toPool)
        afterFrom     == IF setsFrom
                         THEN Put(AccountStore,
                                  TransferUpdatedFromAccount(chainId, fromAddress, transferValue,
                                      poolRelatedType, timestamp, ev.txHash))
                         ELSE AccountStore
        afterTo       == IF setsTo
                         THEN Put(afterFrom,
                                  TransferUpdatedToAccount(chainId, toAddress, transferValue,
                                      poolRelatedType, timestamp, ev.txHash))
                         ELSE afterFrom
    IN  IF isPreload
        THEN /\ last' = Invocation("Ping.Transfer", TRUE, FALSE, {}, ev)
             /\ UNCHANGED <<store, registeredPools, seq, now>>
        ELSE /\ AccountStore' = afterTo
             /\ TokenStore' = Put(TokenStore,
                    TransferTokenEntity(tokenId, chainId, transferValue, holderCountDelta))
             /\ TransferStore' = Put(TransferStore,
                    TransferEntity(chainId, ev.blockNumber, ev.logIndex, ev.txHash, timestamp,
                                   fromAddress, toAddress, transferValue, fromPool, toPool))
             /\ DailyTokenActivityStore' = Put(DailyTokenActivityStore,
                    TransferUpdatedDailyActivity(chainId, timestamp, transferValue, isNewAccount))
             /\ last' = Invocation("Ping.Transfer", FALSE, FALSE,
                    {"Token", "Transfer", "DailyTokenActivity"}
                        \cup (IF setsFrom \/ setsTo THEN {"Account"} ELSE {}), ev)
             /\ seq' = seq + 1
             /\ now' = timestamp
             /\ UNCHANGED <<v3Vars, v4Vars, registeredPools>>

-----------------------------------------------------------------------------
(* utils/token-metadata *)

\* What symbol(), name() and decimals() answer on chain for the token
\* contracts of the model.
OnChainMetadata(tokenAddress) ==
    CASE tokenAddress = toLowerCase(PING_TOKEN_ADDRESS)
             -> [symbol |-> "PING", name |-> "Ping", decimals |-> 18]
      [] tokenAddress = toLowerCase(USDC_ADDRESS)
             -> [symbol |-> "USDC", name |-> "USD Coin", decimals |-> 6]
      [] OTHER
             -> [symbol |-> "WETH", name |-> "Wrapped Ether", decimals |-> 18]

\* Which of the three eth_calls of one fetchTokenMetadata fail.
RpcOutcomes == [symbol : BOOLEAN, name : BOOLEAN, decimals : BOOLEAN]
RpcAllOk    == [symbol |-> TRUE, name |-> TRUE, decimals |-> TRUE]
RpcAllFail  == [symbol |-> FALSE, name |-> FALSE, decimals |-> FALSE]

fetchSymbol(tokenAddress, ok) ==
    IF ok THEN OnChainMetadata(tokenAddress).symbol ELSE "UNKNOWN"

fetchName(tokenAddress, ok) ==
    IF ok THEN OnChainMetadata(tokenAddress).name ELSE "Unknown Token"

\* A decimals fetcher whose failure yields 0 instead of 18.
fetchDecimalsNoFallback(tokenAddress, ok) ==
    IF ok THEN OnChainMetadata(tokenAddress).decimals ELSE 0

fetchDecimals(tokenAddress, ok) ==
    IF ok THEN OnChainMetadata(tokenAddress).decimals ELSE 18

\* `rpc` says which calls succeed; each fetcher catches its own failure.
fetchTokenMetadata(tokenAddress, rpc) ==
    LET normalizedAddress == toLowerCase(tokenAddress)
    IN  [symbol   |-> fetchSymbol(normalizedAddress, rpc.symbol),
         name     |-> fetchName(normalizedAddress, rpc.name),
         decimals |-> fetchDecimals(normalizedAddress, rpc.decimals)]

-----------------------------------------------------------------------------
(* UniswapV3Factory.PoolCreated: contractRegister and handler *)

\* A PING test that compares the addresses as the event carries them.
isPingPoolCaseSensitive(token0, token1) == token0 = PING_TOKEN_ADDRESS \/ token1 = PING_TOKEN_ADDRESS

isPingPool(token0, token1) ==
    \/ toLowerCase(token0) = toLowerCase(PING_TOKEN_ADDRESS)
    \/ toLowerCase(token1) = toLowerCase(PING_TOKEN_ADDRESS)

PoolCreatedPoolEntity(chainId, token0, token1, fee, tickSpacing, pool, token0Metadata, token1Metadata, timestamp, blockNumber) ==
    [id          |-> <<chainId, toLowerCase(pool)>>,
     chainId     |-> chainId,
     address     |-> toLowerCase(pool),
     token0      |-> toLowerCase(token0),
     token1      |-> toLowerCase(token1),
     feeTier     |-> fee,
     tickSpacing |-> tickSpacing,
     token0Symbol   |-> token0Metadata.symbol,
     token0Name     |-> token0Metadata.name,
     token0Decimals |-> token0Metadata.decimals,
     token1Symbol   |-> token1Metadata.symbol,
     token1Name     |-> token1Metadata.name,
     token1Decimals |-> token1Metadata.decimals,
     liquidity    |-> ZERO_BI,
     sqrtPriceX96 |-> ZERO_BI,
     tick         |-> ZERO_BI,
     isActive     |-> FALSE,
     volumeToken0 |-> ZERO_BD,
     volumeToken1 |-> ZERO_BD,
     txCount      |-> ZERO_BI,
     totalValueLockedToken0 |-> ZERO_BD,
     totalValueLockedToken1 |-> ZERO_BD,
     createdAt      |-> timestamp,
     createdAtBlock |-> blockNumber,
     lastSwapAt     |-> ZERO_BI]

\* contractRegister runs when the event is committed; the handler has no
\* isPreload check and runs the same in both passes.
PoolCreated(chainId, token0, token1, fee, tickSpacing, pool, rpc0, rpc1, timestamp, isPreload) ==
    LET ev == [chainId |-> chainId, token0 |-> token0, token1 |-> token1, pool |-> pool,
               timestamp |-> timestamp, blockNumber |-> BlockOf(seq),
               logIndex |-> LogIndexOf(seq), txHash |-> TxHashOf(seq)]
        ping == isPingPool(token0, token1)
    IN  /\ registeredPools' = IF ping /\ ~isPreload
                              THEN registeredPools \cup {pool} ELSE registeredPools
        /\ PoolStore' = IF ping
                        THEN Put(PoolStore,
                                 PoolCreatedPoolEntity(chainId, token0, token1, fee,
                                     tickSpacing, pool,
                                     fetchTokenMetadata(token0, rpc0),
                                     fetchTokenMetadata(token1, rpc1),
                                     timestamp, ev.blockNumber))
                        ELSE PoolStore
        /\ last' = Invocation("UniswapV3Factory.PoolCreated", isPreload, FALSE,
                              IF ping THEN {"Pool"} ELSE {}, ev)
        /\ seq' = IF isPreload THEN seq ELSE seq + 1
        /\ now' = IF isPreload THEN now ELSE timestamp
        /\ UNCHANGED <<tokenVars, SwapStore, DailyPoolActivityStore, v4Vars>>

-----------------------------------------------------------------------------
(* UniswapV3Pool.Initialize.handler *)

\* An Initialize that also clears the pool's liquidity and swap count.
V3InitializeUpdatedPoolReset(pool, sqrtPriceX96, tick) == [pool EXCEPT !.sqrtPriceX96 = sqrtPriceX96, !.tick = tick, !.isActive = TRUE, !.liquidity = ZERO_BI, !.txCount = ZERO_BI]

\* updatedPool: the pool with its initial price and tick, flagged active.
\* An Initialize that also clears the Pool's volumes.
V3InitializeUpdatedPoolNoVolume(pool, sqrtPriceX96, tick) ==
    [pool EXCEPT !.sqrtPriceX96 = sqrtPriceX96, !.tick = tick, !.isActive = TRUE,
                 !.volumeToken0 = ZERO_BD, !.volumeToken1 = ZERO_BD]

V3InitializeUpdatedPool(pool, sqrtPriceX96, tick) ==
    [pool EXCEPT
        !.sqrtPriceX96 = sqrtPriceX96,
        !.tick         = tick,
        !.isActive     = TRUE]

V3Initialize(chainId, srcAddress, sqrtPriceX96, tick, timestamp, isPreload) ==
    LET ev == [chainId |-> chainId, srcAddress |-> srcAddress,
               sqrtPriceX96 |-> sqrtPriceX96, tick |-> tick,
               timestamp |-> timestamp, blockNumber |-> BlockOf(seq),
               logIndex |-> LogIndexOf(seq), txHash |-> TxHashOf(seq)]
        poolAddress == normalizeAddress(srcAddress)
        poolId      == <<chainId, poolAddress>>
    IN  IF isPreload
        THEN /\ last' = Invocation("UniswapV3Pool.Initialize", TRUE, FALSE, {}, ev)
             /\ UNCHANGED <<store, registeredPools, seq, now>>
        ELSE /\ IF ~Has(PoolStore, poolId)
                THEN /\ last' = Invocation("UniswapV3Pool.Initialize", FALSE, TRUE, {}, ev)
                     /\ UNCHANGED PoolStore
                ELSE /\ PoolStore' = Put(PoolStore,
                            V3InitializeUpdatedPool(PoolStore[poolId], sqrtPriceX96, tick))
                     /\ last' = Invocation("UniswapV3Pool.Initialize", FALSE, FALSE,
                                           {"Pool"}, ev)
             /\ seq' = seq + 1
             /\ now' = timestamp
             /\ UNCHANGED <<tokenVars, SwapStore, DailyPoolActivityStore, v4Vars,
                            registeredPools>>

-----------------------------------------------------------------------------
(* UniswapV3Pool.Swap.handler *)

abs(value) == IF value < 0 THEN 0 - value ELSE value

\* amount0 / amount1: the magnitude of the raw amount, in token units.
SwapAmountAbs(amountRaw, decimals) ==
    convertTokenToDecimal(IF amountRaw < 0 THEN 0 - amountRaw ELSE amountRaw, decimals)

\* amount0Signed / amount1Signed: the sign applied back.
\* A swap amount stored without its sign.
SwapAmountSignedUnsigned(amountRaw, decimals) == SwapAmountAbs(amountRaw, decimals)

SwapAmountSigned(amountRaw, decimals) ==
    IF amountRaw < 0
    THEN BDtimes(SwapAmountAbs(amountRaw, decimals), BDminus(ZERO_BD, ONE_BD))
    ELSE SwapAmountAbs(amountRaw, decimals)

\* A swap that leaves the Pool entity as it was.
V3SwapPoolEntityUnchanged(pool, p, amount0Abs, amount1Abs, timestamp) == pool

\* A swap counted twice in the Pool's txCount.
V3SwapPoolEntityCountsTwice(pool, p, amount0Abs, amount1Abs, timestamp) ==
    [pool EXCEPT
        !.liquidity    = p.liquidity,
        !.sqrtPriceX96 = p.sqrtPriceX96,
        !.tick         = p.tick,
        !.isActive     = p.liquidity > ZERO_BI,
        !.volumeToken0 = BDplus(pool.volumeToken0, amount0Abs),
        !.volumeToken1 = BDplus(pool.volumeToken1, amount1Abs),
        !.txCount      = pool.txCount + ONE_BI + ONE_BI,
        !.lastSwapAt   = timestamp]

V3SwapPoolEntity(pool, p, amount0Abs, amount1Abs, timestamp) ==
    [pool EXCEPT
        !.liquidity    = p.liquidity,
        !.sqrtPriceX96 = p.sqrtPriceX96,
        !.tick         = p.tick,
        !.isActive     = p.liquidity > ZERO_BI,
        !.volumeToken0 = BDplus(pool.volumeToken0, amount0Abs),
        !.volumeToken1 = BDplus(pool.volumeToken1, amount1Abs),
        !.txCount      = pool.txCount + ONE_BI,
        !.lastSwapAt   = timestamp]

V3SwapEntity(ev, poolId, amount0Signed, amount1Signed) ==
    [id              |-> <<ev.chainId, ev.blockNumber, ev.logIndex>>,
     chainId         |-> ev.chainId,
     transactionHash |-> ev.txHash,
     timestamp       |-> ev.timestamp,
     blockNumber     |-> ev.blockNumber,
     logIndex        |-> ev.logIndex,
     pool_id         |-> poolId,
     sender          |-> normalizeAddress(ev.params.sender),
     recipient       |-> normalizeAddress(ev.params.recipient),
     amount0         |-> amount0Signed,
     amount1         |-> amount1Signed,
     sqrtPriceX96    |-> ev.params.sqrtPriceX96,
     liquidity       |-> ev.params.liquidity,
     tick            |-> ev.params.tick]

\* The raw amount of the PING leg of a swap (0 when the pool has none).
SwapPingAmountRaw(token0Address, token1Address, amount0Raw, amount1Raw) ==
    LET pingAddress == normalizeAddress(PING_TOKEN_ADDRESS)
    IN  IF token0Address = pingAddress THEN amount0Raw
        ELSE IF token1Address = pingAddress THEN amount1Raw
        ELSE 0

\* The account a v3 swap's BUY is booked on: the recipient of the swap.
V3SwapBuyAccount(txInitiator, recipient) == recipient

\* The account a v3 swap's SELL is booked on: the transaction's sender.
V3SwapSellAccount(txInitiator, recipient) == txInitiator

\* Account buy/sell tracking of a swap: only an existing Account is updated.
SwapAccountUpdate(accounts, chainId, buyAddress, sellAddress, pingRaw, pingAmount, timestamp, txHash) ==
    LET isBuy   == pingRaw > 0 /\ BDgt(pingAmount, ZERO_BD)
        isSell  == pingRaw < 0 /\ BDgt(pingAmount, ZERO_BD)
        buyId   == <<chainId, buyAddress>>
        sellId  == <<chainId, sellAddress>>
    IN  IF isBuy /\ Has(accounts, buyId)
        THEN Put(accounts,
                 [accounts[buyId] EXCEPT
                    !.lastBuyAt      = Some(timestamp),
                    !.lastBuyHash    = Some(txHash),
                    !.totalBuys      = accounts[buyId].totalBuys + ONE_BI,
                    !.totalBuyVolume = BDplus(accounts[buyId].totalBuyVolume, pingAmount)])
        ELSE IF isSell /\ Has(accounts, sellId)
        THEN Put(accounts,
                 [accounts[sellId] EXCEPT
                    !.lastSellAt      = Some(timestamp),
                    !.lastSellHash    = Some(txHash),
                    !.totalSells      = accounts[sellId].totalSells + ONE_BI,
                    !.totalSellVolume = BDplus(accounts[sellId].totalSellVolume, pingAmount)])
        ELSE accounts

\* A daily row whose start-of-day liquidity follows every swap.
V3SwapUpdatedDailyActivityRestart(ev, poolId, poolAddress, amount0Abs, amount1Abs) ==
    LET dayId == getDayId(ev.timestamp)
        id    == <<poolId, dayId>>
    IN  IF Has(DailyPoolActivityStore, id)
        THEN LET dailyActivity == DailyPoolActivityStore[id]
             IN  [dailyActivity EXCEPT
                    !.dailySwaps        = dailyActivity.dailySwaps + ONE_BI,
                    !.dailyVolumeToken0 = BDplus(dailyActivity.dailyVolumeToken0, amount0Abs),
                    !.dailyVolumeToken1 = BDplus(dailyActivity.dailyVolumeToken1, amount1Abs),
                    !.liquidityStart    = ev.params.liquidity,
                    !.liquidityEnd      = ev.params.liquidity,
                    !.sqrtPriceX96End   = ev.params.sqrtPriceX96]
        ELSE [id                |-> id,
              chainId           |-> ev.chainId,
              pool              |-> poolAddress,
              date              |-> dayId,
              timestamp         |-> getDayStartTimestamp(ev.timestamp),
              dailySwaps        |-> ONE_BI,
              dailyVolumeToken0 |-> amount0Abs,
              dailyVolumeToken1 |-> amount1Abs,
              liquidityStart    |-> ev.params.liquidity,
              liquidityEnd      |-> ev.params.liquidity,
              sqrtPriceX96Start |-> ev.params.sqrtPriceX96,
              sqrtPriceX96End   |-> ev.params.sqrtPriceX96]

V3SwapUpdatedDailyActivity(ev, poolId, poolAddress, amount0Abs, amount1Abs) ==
    LET dayId == getDayId(ev.timestamp)
        id    == <<poolId, dayId>>
    IN  IF Has(DailyPoolActivityStore, id)
        THEN LET dailyActivity == DailyPoolActivityStore[id]
             IN  [dailyActivity EXCEPT
                    !.dailySwaps        = dailyActivity.dailySwaps + ONE_BI,
                    !.dailyVolumeToken0 = BDplus(dailyActivity.dailyVolumeToken0, amount0Abs),
                    !.dailyVolumeToken1 = BDplus(dailyActivity.dailyVolumeToken1, amount1Abs),
                    !.liquidityEnd      = ev.params.liquidity,
                    !.sqrtPriceX96End   = ev.params.sqrtPriceX96]
        ELSE [id                |-> id,
              chainId           |-> ev.chainId,
              pool              |-> poolAddress,
              date              |-> dayId,
              timestamp         |-> getDayStartTimestamp(ev.timestamp),
              dailySwaps        |-> ONE_BI,
              dailyVolumeToken0 |-> amount0Abs,
              dailyVolumeToken1 |-> amount1Abs,
              liquidityStart    |-> ev.params.liquidity,
              liquidityEnd      |-> ev.params.liquidity,
              sqrtPriceX96Start |-> ev.params.sqrtPriceX96,
              sqrtPriceX96End   |-> ev.params.sqrtPriceX96]

\* params: sender, recipient, amount0, amount1, sqrtPriceX96, liquidity, tick;
\* txFrom is event.transaction.from: undefined, or Some(address).
V3Swap(chainId, srcAddress, params, txFrom, timestamp, isPreload) ==
    LET ev == [chainId |-> chainId, srcAddress |-> srcAddress, params |-> params,
               txFrom |-> txFrom,
               timestamp |-> timestamp, blockNumber |-> BlockOf(seq),
               logIndex |-> LogIndexOf(seq), txHash |-> TxHashOf(seq)]
        poolAddress == normalizeAddress(srcAddress)
        poolId      == <<chainId, poolAddress>>
    IN  IF isPreload
        THEN /\ last' = Invocation("UniswapV3Pool.Swap", TRUE, FALSE, {}, ev)
             /\ UNCHANGED <<store, registeredPools, seq, now>>
        ELSE /\ IF ~Has(PoolStore, poolId)
                THEN /\ last' = Invocation("UniswapV3Pool.Swap", FALSE, TRUE, {}, ev)
                     /\ UNCHANGED <<AccountStore, v3Vars>>
                ELSE LET pool       == PoolStore[poolId]
                         amount0Abs == SwapAmountAbs(params.amount0, pool.token0Decimals)
                         amount1Abs == SwapAmountAbs(params.amount1, pool.token1Decimals)
                         token0Address == normalizeAddress(pool.token0)
                         token1Address == normalizeAddress(pool.token1)
                         pingRaw    == SwapPingAmountRaw(token0Address, token1Address,
                                                         params.amount0, params.amount1)
                         pingAmount == IF token0Address = normalizeAddress(PING_TOKEN_ADDRESS)
                                       THEN amount0Abs ELSE amount1Abs
                         tracked    == pingRaw # 0 /\ txFrom # undefined
                         accounts   == IF tracked
                                       THEN SwapAccountUpdate(AccountStore, chainId,
                                                V3SwapBuyAccount(normalizeAddress(txFrom[1]),
                                                    normalizeAddress(params.recipient)),
                                                V3SwapSellAccount(normalizeAddress(txFrom[1]),
                                                    normalizeAddress(params.recipient)),
                                                pingRaw, pingAmount, timestamp, ev.txHash)
                                       ELSE AccountStore
                         pingPool   == \/ token0Address = normalizeAddress(PING_TOKEN_ADDRESS)
                                       \/ token1Address = normalizeAddress(PING_TOKEN_ADDRESS)
                     IN  /\ AccountStore' = accounts
                         /\ PoolStore' = Put(PoolStore,
                                V3SwapPoolEntity(pool, params, amount0Abs, amount1Abs, timestamp))
                         /\ SwapStore' = Put(SwapStore,
                                V3SwapEntity(ev, poolId,
                                    SwapAmountSigned(params.amount0, pool.token0Decimals),
                                    SwapAmountSigned(params.amount1, pool.token1Decimals)))
                         /\ DailyPoolActivityStore' = Put(DailyPoolActivityStore,
                                V3SwapUpdatedDailyActivity(ev, poolId, poolAddress,
                                                           amount0Abs, amount1Abs))
                         /\ last' = Invocation("UniswapV3Pool.Swap", FALSE,
                                pingPool /\ txFrom = undefined,
                                {"Pool", "Swap", "DailyPoolActivity"}
                                    \cup (IF accounts # AccountStore THEN {"Account"} ELSE {}),
                                ev)
             /\ seq' = seq + 1
             /\ now' = timestamp
             /\ UNCHANGED <<TokenStore, TransferStore, DailyTokenActivityStore, v4Vars,
                            registeredPools>>

-----------------------------------------------------------------------------
(* utils/v4-tick-math.  The code's Q96 is 2^96; the model keeps the same    *)
(* formulas over sqrt prices with QBits fractional bits.                    *)

Q96      == 2 ^ QBits
MIN_TICK == -887272
MAX_TICK == 887272

\* BigInt division: truncates toward zero.
BigIntDiv(a, b) ==
    IF (a < 0) # (b < 0) THEN 0 - (abs(a) \div abs(b)) ELSE abs(a) \div abs(b)

\* Math.sqrt(Math.pow(1.0001, tick)) in millionths, for the ticks of the model.
SqrtPriceMicros(tick) ==
    CASE tick = -13864 -> 499990
      [] tick = -6932  -> 707100
      [] tick = 0      -> 1000000
      [] tick = 6932   -> 1414226
      [] tick = 13864  -> 2000036
      [] OTHER         -> 1000000

\* A range check that accepts every tick.
TickInRangeAlways(tick) == TRUE

TickInRange(tick) == ~(tick < MIN_TICK \/ tick > MAX_TICK)

\* Defined for ticks in range; out of range the code throws.
getSqrtRatioAtTick(tick) ==
    IF tick = 0 THEN Q96
    ELSE (SqrtPriceMicros(tick) * Q96) \div 1000000

getAmount0DeltaHelper(sqrtPriceLowerX96, sqrtPriceUpperX96, liquidity, roundUp) ==
    LET numerator   == liquidity * (sqrtPriceUpperX96 - sqrtPriceLowerX96)
        denominator == sqrtPriceUpperX96 * sqrtPriceLowerX96
    IN  IF roundUp
        THEN BigIntDiv(numerator * Q96 + denominator - 1, denominator)
        ELSE BigIntDiv(numerator * Q96, denominator)

getAmount0Delta(sqrtPriceAX96, sqrtPriceBX96, liquidity) ==
    LET sqrtPriceLowerX96 == IF sqrtPriceAX96 > sqrtPriceBX96 THEN sqrtPriceBX96
                             ELSE sqrtPriceAX96
        sqrtPriceUpperX96 == IF sqrtPriceAX96 > sqrtPriceBX96 THEN sqrtPriceAX96
                             ELSE sqrtPriceBX96
    IN  IF liquidity < 0
        THEN 0 - getAmount0DeltaHelper(sqrtPriceLowerX96, sqrtPriceUpperX96,
                                       0 - liquidity, FALSE)
        ELSE getAmount0DeltaHelper(sqrtPriceLowerX96, sqrtPriceUpperX96, liquidity, TRUE)

\* A helper that rounds down whatever the flag says.
getAmount1DeltaHelperRoundDown(sqrtPriceLowerX96, sqrtPriceUpperX96, liquidity, roundUp) == BigIntDiv(liquidity * (sqrtPriceUpperX96 - sqrtPriceLowerX96), Q96)

getAmount1DeltaHelper(sqrtPriceLowerX96, sqrtPriceUpperX96, liquidity, roundUp) ==
    LET diff == sqrtPriceUpperX96 - sqrtPriceLowerX96
    IN  IF roundUp
        THEN BigIntDiv(liquidity * diff + Q96 - 1, Q96)
        ELSE BigIntDiv(liquidity * diff, Q96)

getAmount1Delta(sqrtPriceAX96, sqrtPriceBX96, liquidity) ==
    LET sqrtPriceLowerX96 == IF sqrtPriceAX96 > sqrtPriceBX96 THEN sqrtPriceBX96
                             ELSE sqrtPriceAX96
        sqrtPriceUpperX96 == IF sqrtPriceAX96 > sqrtPriceBX96 THEN sqrtPriceAX96
                             ELSE sqrtPriceBX96
    IN  IF liquidity < 0
        THEN 0 - getAmount1DeltaHelper(sqrtPriceLowerX96, sqrtPriceUpperX96,
                                       0 - liquidity, FALSE)
        ELSE getAmount1DeltaHelper(sqrtPriceLowerX96, sqrtPriceUpperX96, liquidity, TRUE)

\* The below-range and above-range branches exchanged.
getLiquidityAmountsSwapped(currentSqrtPriceX96, sqrtPriceLowerX96, sqrtPriceUpperX96, liquidityDelta) ==
    IF currentSqrtPriceX96 <= sqrtPriceLowerX96
    THEN [amount0 |-> 0,
          amount1 |-> getAmount1Delta(sqrtPriceLowerX96, sqrtPriceUpperX96, liquidityDelta)]
    ELSE IF currentSqrtPriceX96 < sqrtPriceUpperX96
    THEN [amount0 |-> getAmount0Delta(currentSqrtPriceX96, sqrtPriceUpperX96, liquidityDelta),
          amount1 |-> getAmount1Delta(sqrtPriceLowerX96, currentSqrtPriceX96, liquidityDelta)]
    ELSE [amount0 |-> getAmount0Delta(sqrtPriceLowerX96, sqrtPriceUpperX96, liquidityDelta),
          amount1 |-> 0]

\* Both amounts computed as for a price inside the range, wherever the price is.
getLiquidityAmountsBothSides(currentSqrtPriceX96, sqrtPriceLowerX96, sqrtPriceUpperX96, liquidityDelta) ==
    [amount0 |-> getAmount0Delta(currentSqrtPriceX96, sqrtPriceUpperX96, liquidityDelta),
     amount1 |-> getAmount1Delta(sqrtPriceLowerX96, currentSqrtPriceX96, liquidityDelta)]

getLiquidityAmounts(currentSqrtPriceX96, sqrtPriceLowerX96, sqrtPriceUpperX96, liquidityDelta) ==
    IF currentSqrtPriceX96 <= sqrtPriceLowerX96
    THEN [amount0 |-> getAmount0Delta(sqrtPriceLowerX96, sqrtPriceUpperX96, liquidityDelta),
          amount1 |-> 0]
    ELSE IF currentSqrtPriceX96 < sqrtPriceUpperX96
    THEN [amount0 |-> getAmount0Delta(currentSqrtPriceX96, sqrtPriceUpperX96, liquidityDelta),
          amount1 |-> getAmount1Delta(sqrtPriceLowerX96, currentSqrtPriceX96, liquidityDelta)]
    ELSE [amount0 |-> 0,
          amount1 |-> getAmount1Delta(sqrtPriceLowerX96, sqrtPriceUpperX96, liquidityDelta)]

\* amount / 10^decimals, by repeated division so that 10^decimals is never built.
RECURSIVE DivPow10(_, _)
DivPow10(amount, decimals) ==
    IF decimals = 0 THEN amount ELSE DivPow10(amount \div 10, decimals - 1)

\* `${integerPart}.${fractionalPart padded to decimals digits}` as a BigDecimal.
convertToDecimal(amount, decimals) ==
    LET integerPart    == DivPow10(amount, decimals)
        fractionalPart == IF integerPart = 0 THEN amount
                          ELSE amount - integerPart * Pow10(decimals)
    IN  BDplus(BigDecimal(integerPart), BDNormalize([m |-> fractionalPart, e |-> decimals]))

-----------------------------------------------------------------------------
(* UniswapV4PoolManager handlers *)

LIQUIDITY_ADD    == "ADD"
LIQUIDITY_REMOVE == "REMOVE"

POOL_ID_A == "0xAA01"
POOL_ID_B == "0xbb02"
HOOKS     == ADDRESS_ZERO

V4InitializeRegistryEntity(poolId, currency0, currency1) ==
    [id         |-> poolId,
     poolId     |-> poolId,
     isPingPool |-> TRUE,
     currency0  |-> toLowerCase(currency0),
     currency1  |-> toLowerCase(currency1)]

\* A PoolV4 entity whose id and chainId are always those of chain 8453.
V4InitializePoolEntityOneChain(chainId, p, currency0Metadata, currency1Metadata, timestamp, blockNumber) ==
    [id          |-> <<8453, p.id>>,
     chainId     |-> 8453,
     poolId      |-> p.id,
     currency0   |-> toLowerCase(p.currency0),
     currency1   |-> toLowerCase(p.currency1),
     fee         |-> p.fee,
     tickSpacing |-> p.tickSpacing,
     hooks       |-> toLowerCase(p.hooks),
     currency0Symbol   |-> currency0Metadata.symbol,
     currency0Name     |-> currency0Metadata.name,
     currency0Decimals |-> currency0Metadata.decimals,
     currency1Symbol   |-> currency1Metadata.symbol,
     currency1Name     |-> currency1Metadata.name,
     currency1Decimals |-> currency1Metadata.decimals,
     sqrtPriceX96 |-> p.sqrtPriceX96,
     liquidity    |-> ZERO_BI,
     tick         |-> p.tick,
     isActive     |-> FALSE,
     volumeCurrency0 |-> ZERO_BD,
     volumeCurrency1 |-> ZERO_BD,
     txCount         |-> ZERO_BI,
     totalValueLockedCurrency0 |-> ZERO_BD,
     totalValueLockedCurrency1 |-> ZERO_BD,
     createdAt      |-> timestamp,
     createdAtBlock |-> blockNumber,
     lastSwapAt     |-> ZERO_BI]

V4InitializePoolEntity(chainId, p, currency0Metadata, currency1Metadata, timestamp, blockNumber) ==
    [id          |-> <<chainId, p.id>>,
     chainId     |-> chainId,
     poolId      |-> p.id,
     currency0   |-> toLowerCase(p.currency0),
     currency1   |-> toLowerCase(p.currency1),
     fee         |-> p.fee,
     tickSpacing |-> p.tickSpacing,
     hooks       |-> toLowerCase(p.hooks),
     currency0Symbol   |-> currency0Metadata.symbol,
     currency0Name     |-> currency0Metadata.name,
     currency0Decimals |-> currency0Metadata.decimals,
     currency1Symbol   |-> currency1Metadata.symbol,
     currency1Name     |-> currency1Metadata.name,
     currency1Decimals |-> currency1Metadata.decimals,
     sqrtPriceX96 |-> p.sqrtPriceX96,
     liquidity    |-> ZERO_BI,
     tick         |-> p.tick,
     isActive     |-> FALSE,
     volumeCurrency0 |-> ZERO_BD,
     volumeCurrency1 |-> ZERO_BD,
     txCount         |-> ZERO_BI,
     totalValueLockedCurrency0 |-> ZERO_BD,
     totalValueLockedCurrency1 |-> ZERO_BD,
     createdAt      |-> timestamp,
     createdAtBlock |-> blockNumber,
     lastSwapAt     |-> ZERO_BI]

\* params: id, currency0, currency1, fee, tickSpacing, hooks, sqrtPriceX96, tick.
\* The handler has no isPreload check.
V4Initialize(chainId, params, rpc0, rpc1, timestamp, isPreload) ==
    LET ev == [chainId |-> chainId, params |-> params,
               timestamp |-> timestamp, blockNumber |-> BlockOf(seq),
               logIndex |-> LogIndexOf(seq), txHash |-> TxHashOf(seq)]
        ping == isPingPool(params.currency0, params.currency1)
    IN  /\ IF ping
           THEN /\ PoolV4RegistryStore' = Put(PoolV4RegistryStore,
                        V4InitializeRegistryEntity(params.id, params.currency0,
                                                   params.currency1))
                /\ PoolV4Store' = Put(PoolV4Store,
                        V4InitializePoolEntity(chainId, params,
                            fetchTokenMetadata(params.currency0, rpc0),
                            fetchTokenMetadata(params.currency1, rpc1),
                            timestamp, ev.blockNumber))
           ELSE UNCHANGED <<PoolV4RegistryStore, PoolV4Store>>
        /\ last' = Invocation("UniswapV4PoolManager.Initialize", isPreload, FALSE,
                              IF ping THEN {"PoolV4Registry", "PoolV4"} ELSE {}, ev)
        /\ seq' = IF isPreload THEN seq ELSE seq + 1
        /\ now' = IF isPreload THEN now ELSE timestamp
        /\ UNCHANGED <<tokenVars, v3Vars, SwapV4Store, ModifyLiquidityV4Store,
                       registeredPools>>

\* Whether PoolV4Registry has the pool id as a PING pool.
\* A registry check that lets every pool id through.
V4IsRegisteredAlways(poolId) == TRUE

V4IsRegistered(poolId) ==
    Has(PoolV4RegistryStore, poolId) /\ PoolV4RegistryStore[poolId].isPingPool

\* A swap that flags the pool active whatever liquidity it reports.
V4SwapUpdatedPoolAlwaysActive(pool, p, amount0Dec, amount1Dec, timestamp) ==
    [pool EXCEPT
        !.sqrtPriceX96    = p.sqrtPriceX96,
        !.liquidity       = p.liquidity,
        !.tick            = p.tick,
        !.volumeCurrency0 = BDplus(pool.volumeCurrency0, amount0Dec),
        !.volumeCurrency1 = BDplus(pool.volumeCurrency1, amount1Dec),
        !.txCount         = pool.txCount + ONE_BI,
        !.lastSwapAt      = timestamp,
        !.isActive        = TRUE]

V4SwapUpdatedPool(pool, p, amount0Dec, amount1Dec, timestamp) ==
    [pool EXCEPT
        !.sqrtPriceX96    = p.sqrtPriceX96,
        !.liquidity       = p.liquidity,
        !.tick            = p.tick,
        !.volumeCurrency0 = BDplus(pool.volumeCurrency0, amount0Dec),
        !.volumeCurrency1 = BDplus(pool.volumeCurrency1, amount1Dec),
        !.txCount         = pool.txCount + ONE_BI,
        !.lastSwapAt      = timestamp,
        !.isActive        = p.liquidity > ZERO_BI]

V4SwapEntity(ev, poolEntityId, amount0Signed, amount1Signed) ==
    [id              |-> <<ev.chainId, ev.blockNumber, ev.logIndex>>,
     chainId         |-> ev.chainId,
     transactionHash |-> ev.txHash,
     timestamp       |-> ev.timestamp,
     blockNumber     |-> ev.blockNumber,
     logIndex        |-> ev.logIndex,
     pool_id         |-> poolEntityId,
     poolId          |-> ev.params.id,
     sender          |-> toLowerCase(ev.params.sender),
     amount0         |-> amount0Signed,
     amount1         |-> amount1Signed,
     sqrtPriceX96    |-> ev.params.sqrtPriceX96,
     liquidity       |-> ev.params.liquidity,
     tick            |-> ev.params.tick,
     swapFee         |-> ev.params.swapFee]

\* Sign applied back on a converted magnitude: amountDec.times("-1").
V4AmountSigned(amountRaw, amountDec) ==
    IF amountRaw < 0 THEN BDtimes(amountDec, BigDecimal(-1)) ELSE amountDec

\* params: id, sender, amount0, amount1, sqrtPriceX96, liquidity, tick, swapFee.
\* The handler has no isPreload check.
V4Swap(chainId, params, txFrom, timestamp, isPreload) ==
    LET ev == [chainId |-> chainId, params |-> params, txFrom |-> txFrom,
               timestamp |-> timestamp, blockNumber |-> BlockOf(seq),
               logIndex |-> LogIndexOf(seq), txHash |-> TxHashOf(seq)]
        poolEntityId == <<chainId, params.id>>
        op == "UniswapV4PoolManager.Swap"
    IN  /\ IF ~V4IsRegistered(params.id)
           THEN /\ last' = Invocation(op, isPreload, FALSE, {}, ev)
                /\ UNCHANGED <<AccountStore, PoolV4Store, SwapV4Store>>
           ELSE IF ~Has(PoolV4Store, poolEntityId)
           THEN /\ last' = Invocation(op, isPreload, TRUE, {}, ev)
                /\ UNCHANGED <<AccountStore, PoolV4Store, SwapV4Store>>
           ELSE LET pool       == PoolV4Store[poolEntityId]
                    amount0Dec == convertToDecimal(abs(params.amount0), pool.currency0Decimals)
                    amount1Dec == convertToDecimal(abs(params.amount1), pool.currency1Decimals)
                    currency0Address == toLowerCase(pool.currency0)
                    currency1Address == toLowerCase(pool.currency1)
                    pingRaw    == SwapPingAmountRaw(currency0Address, currency1Address,
                                                    params.amount0, params.amount1)
                    pingAmount == IF currency0Address = toLowerCase(PING_TOKEN_ADDRESS)
                                  THEN amount0Dec ELSE amount1Dec
                    txInitiator == toLowerCase(params.sender)
                    tracked    == pingRaw # 0 /\ txFrom # undefined
                    accounts   == IF tracked
                                  THEN SwapAccountUpdate(AccountStore, chainId, txInitiator,
                                           txInitiator, pingRaw, pingAmount, timestamp,
                                           ev.txHash)
                                  ELSE AccountStore
                    pingPool   == \/ currency0Address = toLowerCase(PING_TOKEN_ADDRESS)
                                  \/ currency1Address = toLowerCase(PING_TOKEN_ADDRESS)
                IN  /\ AccountStore' = accounts
                    /\ PoolV4Store' = Put(PoolV4Store,
                           V4SwapUpdatedPool(pool, params, amount0Dec, amount1Dec, timestamp))
                    /\ SwapV4Store' = Put(SwapV4Store,
                           V4SwapEntity(ev, poolEntityId,
                               V4AmountSigned(params.amount0, amount0Dec),
                               V4AmountSigned(params.amount1, amount1Dec)))
                    /\ last' = Invocation(op, isPreload, pingPool /\ txFrom = undefined,
                           {"PoolV4", "SwapV4"}
                               \cup (IF accounts # AccountStore THEN {"Account"} ELSE {}),
                           ev)
        /\ seq' = IF isPreload THEN seq ELSE seq + 1
        /\ now' = IF isPreload THEN now ELSE timestamp
        /\ UNCHANGED <<TokenStore, TransferStore, DailyTokenActivityStore, v3Vars,
                       PoolV4RegistryStore, ModifyLiquidityV4Store, registeredPools>>

\* A pool update that adds the amounts to the TVL whatever the sign of the delta.
ModifyLiquidityUpdatedPoolAlwaysAdd(pool, liquidityDelta, amount0Dec, amount1Dec) ==
    LET newLiquidity == pool.liquidity + liquidityDelta
    IN  [pool EXCEPT
            !.liquidity = newLiquidity,
            !.isActive  = newLiquidity > ZERO_BI,
            !.totalValueLockedCurrency0 = BDplus(pool.totalValueLockedCurrency0, amount0Dec),
            !.totalValueLockedCurrency1 = BDplus(pool.totalValueLockedCurrency1, amount1Dec)]

ModifyLiquidityUpdatedPool(pool, liquidityDelta, amount0Dec, amount1Dec) ==
    LET isAdd        == liquidityDelta >= 0
        newLiquidity == pool.liquidity + liquidityDelta
    IN  [pool EXCEPT
            !.liquidity = newLiquidity,
            !.isActive  = newLiquidity > ZERO_BI,
            !.totalValueLockedCurrency0 =
                IF isAdd THEN BDplus(pool.totalValueLockedCurrency0, amount0Dec)
                ELSE BDminus(pool.totalValueLockedCurrency0, amount0Dec),
            !.totalValueLockedCurrency1 =
                IF isAdd THEN BDplus(pool.totalValueLockedCurrency1, amount1Dec)
                ELSE BDminus(pool.totalValueLockedCurrency1, amount1Dec)]

ModifyLiquidityEntity(ev, poolEntityId, amount0Dec, amount1Dec) ==
    [id               |-> <<ev.chainId, ev.blockNumber, ev.logIndex>>,
     chainId          |-> ev.chainId,
     transactionHash  |-> ev.txHash,
     timestamp        |-> ev.timestamp,
     blockNumber      |-> ev.blockNumber,
     logIndex         |-> ev.logIndex,
     pool_id          |-> poolEntityId,
     poolId           |-> ev.params.id,
     sender           |-> toLowerCase(ev.params.sender),
     tickLower        |-> ev.params.tickLower,
     tickUpper        |-> ev.params.tickUpper,
     liquidityDelta   |-> ev.params.liquidityDelta,
     salt             |-> ev.params.salt,
     amount0          |-> amount0Dec,
     amount1          |-> amount1Dec,
     modificationType |-> IF ev.params.liquidityDelta >= 0 THEN LIQUIDITY_ADD
                          ELSE LIQUIDITY_REMOVE]

\* params: id, sender, tickLower, tickUpper, liquidityDelta, salt.
\* The handler has no isPreload check; getSqrtRatioAtTick throws on a tick out
\* of range, before anything is set.
V4ModifyLiquidity(chainId, params, timestamp, isPreload) ==
    LET ev == [chainId |-> chainId, params |-> params,
               timestamp |-> timestamp, blockNumber |-> BlockOf(seq),
               logIndex |-> LogIndexOf(seq), txHash |-> TxHashOf(seq)]
        poolEntityId == <<chainId, params.id>>
        op == "UniswapV4PoolManager.ModifyLiquidity"
    IN  /\ IF ~V4IsRegistered(params.id)
           THEN /\ last' = Invocation(op, isPreload, FALSE, {}, ev)
                /\ UNCHANGED <<PoolV4Store, ModifyLiquidityV4Store>>
           ELSE IF ~Has(PoolV4Store, poolEntityId)
           THEN /\ last' = Invocation(op, isPreload, TRUE, {}, ev)
                /\ UNCHANGED <<PoolV4Store, ModifyLiquidityV4Store>>
           ELSE IF ~(TickInRange(params.tickLower) /\ TickInRange(params.tickUpper))
           THEN /\ last' = [Invocation(op, isPreload, FALSE, {}, ev) EXCEPT !.threw = TRUE]
                /\ UNCHANGED <<PoolV4Store, ModifyLiquidityV4Store>>
           ELSE LET pool    == PoolV4Store[poolEntityId]
                    amounts == getLiquidityAmounts(pool.sqrtPriceX96,
                                   getSqrtRatioAtTick(params.tickLower),
                                   getSqrtRatioAtTick(params.tickUpper),
                                   params.liquidityDelta)
                    amount0Dec == IF amounts.amount0 # ZERO_BI
                                  THEN convertToDecimal(abs(amounts.amount0),
                                                        pool.currency0Decimals)
                                  ELSE ZERO_BD
                    amount1Dec == IF amounts.amount1 # ZERO_BI
                                  THEN convertToDecimal(abs(amounts.amount1),
                                                        pool.currency1Decimals)
                                  ELSE ZERO_BD
                IN  /\ PoolV4Store' = Put(PoolV4Store,
                           ModifyLiquidityUpdatedPool(pool, params.liquidityDelta,
                                                      amount0Dec, amount1Dec))
                    /\ ModifyLiquidityV4Store' = Put(ModifyLiquidityV4Store,
                           ModifyLiquidityEntity(ev, poolEntityId, amount0Dec, amount1Dec))
                    /\ last' = Invocation(op, isPreload, FALSE,
                                          {"PoolV4", "ModifyLiquidityV4"}, ev)
        /\ seq' = IF isPreload THEN seq ELSE seq + 1
        /\ now' = IF isPreload THEN now ELSE timestamp
        /\ UNCHANGED <<tokenVars, v3Vars, PoolV4RegistryStore, SwapV4Store, registeredPools>>

\* params: id, sender, amount0, amount1.  Logged only.
V4Donate(chainId, params, timestamp, isPreload) ==
    LET ev == [chainId |-> chainId, params |-> params,
               timestamp |-> timestamp, blockNumber |-> BlockOf(seq),
               logIndex |-> LogIndexOf(seq), txHash |-> TxHashOf(seq)]
    IN  /\ last' = Invocation("UniswapV4PoolManager.Donate", isPreload, FALSE, {}, ev)
        /\ seq' = IF isPreload THEN seq ELSE seq + 1
        /\ now' = IF isPreload THEN now ELSE timestamp
        /\ UNCHANGED <<store, registeredPools>>

-----------------------------------------------------------------------------
(* Specifications *)

Init ==
    /\ TokenStore = <<>>
    /\ AccountStore = <<>>
    /\ TransferStore = <<>>
    /\ DailyTokenActivityStore = <<>>
    /\ PoolStore = <<>>
    /\ SwapStore = <<>>
    /\ DailyPoolActivityStore = <<>>
    /\ PoolV4Store = <<>>
    /\ PoolV4RegistryStore = <<>>
    /\ SwapV4Store = <<>>
    /\ ModifyLiquidityV4Store = <<>>
    /\ registeredPools = {}
    /\ seq = 0
    /\ now = 0
    /\ last = Invocation("none", FALSE, FALSE, {}, [chainId |-> 0])

\* Inputs of the events
BaseChain         == {8453}
TransferSenders   == {ADDRESS_ZERO, USER_A, POOL_A}
TransferReceivers == {ADDRESS_ZERO, USER_A, USER_B, POOL_A}
TransferValues    == {1, 2}
FeeTiers          == {<<3000, 60>>}

\* Transfers and pool creations of one chain, committed in order.
TransferEvent ==
    /\ seq < MaxEvents
    /\ \E chainId \in BaseChain, from \in TransferSenders, to \in TransferReceivers,
          value \in TransferValues, timestamp \in NextTimestamps :
           PingTransfer(chainId, from, to, value, timestamp, FALSE)

PoolCreatedEvent ==
    /\ seq < MaxEvents
    /\ \E chainId \in BaseChain, ft \in FeeTiers, timestamp \in NextTimestamps :
           PoolCreated(chainId, USDC_ADDRESS, PING_TOKEN_ADDRESS, ft[1], ft[2], POOL_A,
                       RpcAllOk, RpcAllOk, timestamp, FALSE)

NextTransfer == TransferEvent \/ PoolCreatedEvent

SpecTransfer == Init /\ [][NextTransfer]_vars

-----------------------------------------------------------------------------
(* Properties of the Transfer handler *)

RECURSIVE SumBalances(_, _)
SumBalances(accounts, ids) ==
    IF ids = {} THEN ZERO_BD
    ELSE LET id == CHOOSE x \in ids : TRUE
         IN  BDplus(accounts[id].balance, SumBalances(accounts, ids \ {id}))

PositiveAccountsIn(accounts, chainId) ==
    {id \in DOMAIN accounts : id[1] = chainId /\ BDgt(accounts[id].balance, ZERO_BD)}

PositiveAccounts(chainId) == PositiveAccountsIn(AccountStore, chainId)

\* C1: on every chain, Token.holderCount equals the number of Account records
\* whose balance is strictly positive.
HolderCountIsPositiveAccounts ==
    \A id \in DOMAIN TokenStore :
        TokenStore[id].holderCount = Cardinality(PositiveAccounts(id[1]))

\* C2: Token.holderCount is never negative.
HolderCountNonNegative ==
    \A id \in DOMAIN TokenStore : TokenStore[id].holderCount >= 0

NoZeroAddressTransfer ==
    \A id \in DOMAIN TransferStore :
        /\ TransferStore[id].from_id[2] # ADDRESS_ZERO
        /\ TransferStore[id].to_id[2] # ADDRESS_ZERO

\* C3: as long as no committed Transfer had the zero address as sender or
\* receiver, the balances of all Account records sum to zero.
BalancesSumToZero ==
    NoZeroAddressTransfer =>
        BDeq(SumBalances(AccountStore, DOMAIN AccountStore), ZERO_BD)

StoreEmpty ==
    /\ DOMAIN TokenStore = {} /\ DOMAIN AccountStore = {} /\ DOMAIN TransferStore = {}
    /\ DOMAIN DailyTokenActivityStore = {} /\ DOMAIN PoolStore = {} /\ DOMAIN SwapStore = {}
    /\ DOMAIN DailyPoolActivityStore = {} /\ DOMAIN PoolV4Store = {}
    /\ DOMAIN PoolV4RegistryStore = {} /\ DOMAIN SwapV4Store = {}
    /\ DOMAIN ModifyLiquidityV4Store = {}

\* The invocation recorded in `inv` is a committed one of handler `op`.
Committed(inv, op) == inv.op = op /\ ~inv.isPreload

EventId(ev) == <<ev.chainId, ev.blockNumber, ev.logIndex>>

PlainTransferEvent(ev) ==
    /\ toLowerCase(ev.from) # toLowerCase(ev.to)
    /\ toLowerCase(ev.from) # ADDRESS_ZERO
    /\ toLowerCase(ev.to) # ADDRESS_ZERO

\* C8: a Transfer between two distinct non-zero addresses committed on an empty
\* store leaves a Transfer record under {chainId}_{blockNumber}_{logIndex} with
\* the lower-cased from_id / to_id and isPoolRelated = false, and an Account for
\* the sender (with a negative balance) and for the receiver.
FirstTransferCreatesRecordAndAccounts ==
    [][ (StoreEmpty /\ Committed(last', "Ping.Transfer") /\ PlainTransferEvent(last'.ev)) =>
        LET ev     == last'.ev
            fromId == <<ev.chainId, toLowerCase(ev.from)>>
            toId   == <<ev.chainId, toLowerCase(ev.to)>>
        IN  /\ EventId(ev) \in DOMAIN TransferStore'
            /\ TransferStore'[EventId(ev)].id = EventId(ev)
            /\ TransferStore'[EventId(ev)].from_id = fromId
            /\ TransferStore'[EventId(ev)].to_id = toId
            /\ TransferStore'[EventId(ev)].isPoolRelated = FALSE
            /\ DOMAIN AccountStore' = {fromId, toId}
            /\ AccountStore'[fromId].balance.m < 0
            /\ AccountStore'[toId].balance.m > 0 ]_vars

FirstTransferWitness ==
    /\ Committed(last, "Ping.Transfer") /\ last.seq = 0
    /\ PlainTransferEvent(last.ev)
    /\ last.ev.from # toLowerCase(last.ev.from)
    /\ DOMAIN TransferStore = {EventId(last.ev)}
    /\ DOMAIN AccountStore = {<<last.ev.chainId, toLowerCase(last.ev.from)>>,
                              <<last.ev.chainId, toLowerCase(last.ev.to)>>}

HolderCountOf(tokens, chainId) ==
    LET id == <<chainId, toLowerCase(PING_TOKEN_ADDRESS)>>
    IN  IF id \in DOMAIN tokens THEN tokens[id].holderCount ELSE 0

NoZeroAddressAccount ==
    \A id \in DOMAIN AccountStore : id[2] # ADDRESS_ZERO

\* C9: no Account record ever exists for the zero address, and a committed
\* Transfer from or to the zero address changes holderCount by exactly the
\* change in the number of accounts with a positive balance (none of which is
\* the zero address).
ZeroAddressNeverCounts ==
    /\ [] NoZeroAddressAccount
    /\ [][ (/\ Committed(last', "Ping.Transfer")
            /\ (\/ toLowerCase(last'.ev.from) = ADDRESS_ZERO
                \/ toLowerCase(last'.ev.to) = ADDRESS_ZERO)) =>
           HolderCountOf(TokenStore', last'.ev.chainId)
               - HolderCountOf(TokenStore, last'.ev.chainId)
             = Cardinality(PositiveAccountsIn(AccountStore', last'.ev.chainId))
               - Cardinality(PositiveAccountsIn(AccountStore, last'.ev.chainId)) ]_vars

ZeroAddressWitness ==
    /\ Committed(last, "Ping.Transfer")
    /\ toLowerCase(last.ev.to) = ADDRESS_ZERO
    /\ <<last.ev.chainId, toLowerCase(last.ev.from)>> \in DOMAIN AccountStore
    /\ BDlte(AccountStore[<<last.ev.chainId, toLowerCase(last.ev.from)>>].balance, ZERO_BD)
    /\ HolderCountOf(TokenStore, last.ev.chainId) = 1
    /\ Cardinality(DOMAIN TransferStore) = 3

\* C10: a committed Transfer is recorded as BUY when its sender is a known
\* pool, as SELL when (the sender is not and) its receiver is a known pool,
\* and as NONE otherwise.
TransferClassifiedByPoolLookup ==
    Committed(last, "Ping.Transfer") =>
        LET ev == last.ev
        IN  TransferStore[EventId(ev)].poolRelatedType =
                IF <<ev.chainId, toLowerCase(ev.from)>> \in DOMAIN PoolStore
                THEN POOL_RELATION_BUY
                ELSE IF <<ev.chainId, toLowerCase(ev.to)>> \in DOMAIN PoolStore
                THEN POOL_RELATION_SELL
                ELSE POOL_RELATION_NONE

-----------------------------------------------------------------------------
(* The v3 pools of one chain: pool creation, initialisation and swaps, with  *)
(* a mint so that an Account exists.                                        *)

V3SwapParams ==
    {[sender |-> USER_B, recipient |-> r, amount0 |-> a[1], amount1 |-> a[2],
      sqrtPriceX96 |-> 2 * Q96, liquidity |-> l, tick |-> 0] :
        r \in {USER_A}, a \in {<<-1000000, 2>>, <<3000000, -1>>, <<0, 0>>}, l \in {0, 1000}}

TxFroms == {undefined, Some(USER_A), Some(USER_B)}

\* The factory emits PoolCreated once for a pool address.
V3PoolCreatedEvent ==
    /\ seq < MaxEvents
    /\ \E chainId \in BaseChain, ft \in FeeTiers, timestamp \in NextTimestamps,
          rpc \in {RpcAllOk, RpcAllFail},
          tp \in {<<USDC_ADDRESS, PING_TOKEN_ADDRESS, POOL_A>>,
                  <<USDC_ADDRESS, WETH_ADDRESS, POOL_B>>} :
        /\ ~Has(PoolStore, <<chainId, toLowerCase(tp[3])>>)
        /\ PoolCreated(chainId, tp[1], tp[2], ft[1], ft[2], tp[3], rpc, rpc, timestamp, FALSE)

V3InitializeEvent ==
    /\ seq < MaxEvents
    /\ \E chainId \in BaseChain, srcAddress \in {POOL_A, POOL_B},
          timestamp \in NextTimestamps :
           V3Initialize(chainId, srcAddress, Q96, 0, timestamp, FALSE)

V3SwapEvent ==
    /\ seq < MaxEvents
    /\ \E chainId \in BaseChain, srcAddress \in {POOL_A, POOL_B}, params \in V3SwapParams,
          txFrom \in TxFroms, timestamp \in NextTimestamps :
           V3Swap(chainId, srcAddress, params, txFrom, timestamp, FALSE)

MintEvent ==
    /\ seq < MaxEvents
    /\ \E chainId \in BaseChain, timestamp \in NextTimestamps :
           PingTransfer(chainId, ADDRESS_ZERO, USER_A, 2, timestamp, FALSE)

NextV3 == V3PoolCreatedEvent \/ V3InitializeEvent \/ V3SwapEvent \/ MintEvent

SpecV3 == Init /\ [][NextV3]_vars

-----------------------------------------------------------------------------
(* Every handler, in the preload pass and in the commit pass, over two      *)
(* chains (8453 and 1).  A preload pass runs between two commits.           *)

\* One block timestamp per behaviour: the passes are what this explores.
FixedTimestamp == IF now = 0 THEN 2 * SECONDS_PER_DAY ELSE now

MayRun(isPreload) ==
    /\ seq < MaxEvents
    /\ isPreload => ~last.isPreload

V4InitializeParams ==
    {[id |-> POOL_ID_A, currency0 |-> PING_TOKEN_ADDRESS, currency1 |-> USDC_ADDRESS,
      fee |-> 3000, tickSpacing |-> 60, hooks |-> HOOKS, sqrtPriceX96 |-> Q96, tick |-> 0],
     [id |-> POOL_ID_B, currency0 |-> USDC_ADDRESS, currency1 |-> WETH_ADDRESS,
      fee |-> 3000, tickSpacing |-> 60, hooks |-> HOOKS, sqrtPriceX96 |-> Q96, tick |-> 0]}

V4SwapParams ==
    {[chainId |-> c[1],
      params |-> [id |-> c[2], sender |-> USER_A, amount0 |-> -2, amount1 |-> 1000000,
                  sqrtPriceX96 |-> 2 * Q96, liquidity |-> 1000, tick |-> 13864,
                  swapFee |-> 3000]] :
        c \in {<<8453, POOL_ID_A>>, <<1, POOL_ID_A>>, <<8453, POOL_ID_B>>}}

V4ModifyLiquidityParams ==
    {[chainId |-> c[1],
      params |-> [id |-> c[2], sender |-> USER_A, tickLower |-> -6932, tickUpper |-> 6932,
                  liquidityDelta |-> c[3], salt |-> "0x00"]] :
        c \in {<<8453, POOL_ID_A, 1000>>, <<8453, POOL_ID_A, -1000>>,
               <<1, POOL_ID_A, 1000>>, <<8453, POOL_ID_B, 1000>>}}

V4DonateParams ==
    {[id |-> POOL_ID_A, sender |-> USER_A, amount0 |-> 1, amount1 |-> 1]}

HandleTransfer ==
    \E isPreload \in BOOLEAN :
        /\ MayRun(isPreload)
        /\ PingTransfer(8453, USER_A, USER_B, 1, FixedTimestamp, isPreload)

HandlePoolCreated ==
    \E isPreload \in BOOLEAN,
       tp \in {<<USDC_ADDRESS, PING_TOKEN_ADDRESS, POOL_A>>,
               <<USDC_ADDRESS, WETH_ADDRESS, POOL_B>>} :
        /\ MayRun(isPreload)
        /\ PoolCreated(8453, tp[1], tp[2], 3000, 60, tp[3], RpcAllOk, RpcAllOk,
                       FixedTimestamp, isPreload)

HandleV3Initialize ==
    \E isPreload \in BOOLEAN, srcAddress \in {POOL_A, POOL_B} :
        /\ MayRun(isPreload)
        /\ V3Initialize(8453, srcAddress, Q96, 0, FixedTimestamp, isPreload)

HandleV3Swap ==
    \E isPreload \in BOOLEAN, srcAddress \in {POOL_A, POOL_B} :
        /\ MayRun(isPreload)
        /\ V3Swap(8453, srcAddress,
                  [sender |-> USER_B, recipient |-> USER_A, amount0 |-> -1000000,
                   amount1 |-> 2, sqrtPriceX96 |-> 2 * Q96, liquidity |-> 1000, tick |-> 0],
                  Some(USER_A), FixedTimestamp, isPreload)

HandleV4Initialize ==
    \E isPreload \in BOOLEAN, params \in V4InitializeParams :
        /\ MayRun(isPreload)
        /\ V4Initialize(8453, params, RpcAllOk, RpcAllOk, FixedTimestamp, isPreload)

HandleV4Swap ==
    \E isPreload \in BOOLEAN, e \in V4SwapParams :
        /\ MayRun(isPreload)
        /\ V4Swap(e.chainId, e.params, Some(USER_A), FixedTimestamp, isPreload)

HandleV4ModifyLiquidity ==
    \E isPreload \in BOOLEAN, e \in V4ModifyLiquidityParams :
        /\ MayRun(isPreload)
        /\ V4ModifyLiquidity(e.chainId, e.params, FixedTimestamp, isPreload)

HandleV4Donate ==
    \E isPreload \in BOOLEAN, params \in V4DonateParams :
        /\ MayRun(isPreload)
        /\ V4Donate(8453, params, FixedTimestamp, isPreload)

Next ==
    \/ HandleTransfer
    \/ HandlePoolCreated
    \/ HandleV3Initialize
    \/ HandleV3Swap
    \/ HandleV4Initialize
    \/ HandleV4Swap
    \/ HandleV4ModifyLiquidity
    \/ HandleV4Donate

Spec == Init /\ [][Next]_vars

-----------------------------------------------------------------------------
(* Properties of the preload pass and of the pool handlers.                 *)

\* C4: a handler invoked with isPreload = true leaves every entity store as
\* it was and issues no set.
PreloadIssuesOnlyReads ==
    [][ last'.isPreload => (store' = store /\ last'.writes = {}) ]_vars

V3PoolMissing(ev) ==
    <<ev.chainId, toLowerCase(ev.srcAddress)>> \notin DOMAIN PoolStore

V4PoolMissing(ev) ==
    <<ev.chainId, ev.params.id>> \notin DOMAIN PoolV4Store

V3MissingPoolCommitted(inv) ==
    /\ Committed(inv, "UniswapV3Pool.Swap") \/ Committed(inv, "UniswapV3Pool.Initialize")
    /\ V3PoolMissing(inv.ev)

V4MissingPoolCommitted(inv) ==
    /\ \/ Committed(inv, "UniswapV4PoolManager.Swap")
       \/ Committed(inv, "UniswapV4PoolManager.ModifyLiquidity")
    /\ V4PoolMissing(inv.ev)

\* C5 as stated: a committed v3 Swap or Initialize, or V4 Swap or
\* ModifyLiquidity, for a pool with no Pool / PoolV4 entity logs a warning,
\* leaves the store entirely unchanged and lets the next event be processed.
MissingPoolWarnsAndSkips ==
    [][ (V3MissingPoolCommitted(last') \/ V4MissingPoolCommitted(last')) =>
        (last'.warned /\ store' = store /\ ~last'.threw /\ seq' = seq + 1) ]_vars

\* C5 amended: such an event leaves the store entirely unchanged and lets the
\* next event be processed; the v3 handlers always log the warning, the V4
\* handlers log it exactly when the pool id has a PoolV4Registry entry marked
\* as a PING pool, and return silently otherwise.
MissingPoolSkips ==
    [][ /\ V3MissingPoolCommitted(last') =>
            (last'.warned /\ store' = store /\ ~last'.threw /\ seq' = seq + 1)
        /\ V4MissingPoolCommitted(last') =>
            /\ store' = store /\ ~last'.threw /\ seq' = seq + 1
            /\ last'.warned <=>
                   /\ last'.ev.params.id \in DOMAIN PoolV4RegistryStore
                   /\ PoolV4RegistryStore[last'.ev.params.id].isPingPool ]_vars

\* A V4 Swap committed on a chain where the registered pool has no PoolV4
\* entity, after events that filled the store.
MissingPoolWitness ==
    /\ Committed(last, "UniswapV4PoolManager.Swap")
    /\ V4PoolMissing(last.ev)
    /\ last.ev.params.id \in DOMAIN PoolV4RegistryStore
    /\ last.warned /\ last.writes = {}
    /\ DOMAIN PoolV4Store # {}
    /\ last.seq = 2

\* C6: a committed v3 Swap on an empty store produces a Swap record with id
\* {chainId}_{block}_{logIndex} and a Pool with txCount 1.
FirstSwapCreatesSwapAndPool ==
    [][ (StoreEmpty /\ Committed(last', "UniswapV3Pool.Swap")) =>
        LET ev     == last'.ev
            poolId == <<ev.chainId, toLowerCase(ev.srcAddress)>>
        IN  /\ EventId(ev) \in DOMAIN SwapStore'
            /\ SwapStore'[EventId(ev)].id = EventId(ev)
            /\ poolId \in DOMAIN PoolStore'
            /\ PoolStore'[poolId].txCount = 1 ]_vars

\* d * 10^decimals = raw, with d a decimal and raw an integer.
IsRawOverPow10(d, raw, decimals) ==
    BDNormalize([m |-> d.m, e |-> d.e - decimals]) = BigDecimal(raw)

\* C7: a committed v3 Swap on a known pool stores amount0 and amount1 with
\* the sign of the raw event amounts and magnitude |raw| / 10^decimals,
\* increases both pool volumes by the unsigned magnitudes and increments
\* the pool's txCount by one.
SwapAmountsAndVolumes ==
    [][ (Committed(last', "UniswapV3Pool.Swap") /\ ~V3PoolMissing(last'.ev)) =>
        LET ev     == last'.ev
            poolId == <<ev.chainId, toLowerCase(ev.srcAddress)>>
            before == PoolStore[poolId]
            after  == PoolStore'[poolId]
            swap   == SwapStore'[EventId(ev)]
            mag(x) == IF x < 0 THEN 0 - x ELSE x
        IN  /\ EventId(ev) \in DOMAIN SwapStore'
            /\ IsRawOverPow10(swap.amount0, ev.params.amount0, before.token0Decimals)
            /\ IsRawOverPow10(swap.amount1, ev.params.amount1, before.token1Decimals)
            /\ IsRawOverPow10(BDminus(after.volumeToken0, before.volumeToken0),
                              mag(ev.params.amount0), before.token0Decimals)
            /\ IsRawOverPow10(BDminus(after.volumeToken1, before.volumeToken1),
                              mag(ev.params.amount1), before.token1Decimals)
            /\ after.txCount = before.txCount + 1 ]_vars

\* The second swap of a pool whose tokens have 6 and 18 decimals, selling
\* token0 into the pool after a swap that bought it.
SwapAmountsWitness ==
    /\ Committed(last, "UniswapV3Pool.Swap")
    /\ <<last.ev.chainId, toLowerCase(last.ev.srcAddress)>> \in DOMAIN PoolStore
    /\ EventId(last.ev) \in DOMAIN SwapStore
    /\ last.ev.params.amount0 > 0 /\ last.ev.params.amount1 < 0
    /\ SwapStore[EventId(last.ev)].amount1.m < 0
    /\ LET pool == PoolStore[<<last.ev.chainId, toLowerCase(last.ev.srcAddress)>>]
       IN  /\ pool.txCount = 2
           /\ pool.token0Decimals = 6 /\ pool.token1Decimals = 18
           /\ pool.volumeToken0 = BigDecimal(4)

-----------------------------------------------------------------------------
(* The utility functions on their own: each step is one call, its arguments *)
(* and its result recorded as the last invocation.                          *)

MetadataTokens == {PING_TOKEN_ADDRESS, USDC_ADDRESS, WETH_ADDRESS}

SqrtPricesX96 == {Q96 \div 2, Q96, Q96 + 1, 2 * Q96}

LiquidityDeltas == {-1000, -1, 0, 1, 1000}

RawAmounts == {0, 1, 9, 10, 123, 1000000, 2147483647}

DayTimestamps ==
    {0, 1, SECONDS_PER_DAY - 1, SECONDS_PER_DAY, SECONDS_PER_DAY + 1,
     2 * SECONDS_PER_DAY - 1, 2 * SECONDS_PER_DAY,
     951782399, 951782400, 951868800,        \* 2000-02-28/29, 2000-03-01
     1709251199, 1709251200,                 \* 2024-02-29 / 2024-03-01
     1735689599, 1735689600}                 \* 2024-12-31 / 2025-01-01

\* One call per behaviour, made on the freshly constructed state.
NoCallYet == last.op = "none"

Call(op, ev) ==
    /\ last' = Invocation(op, FALSE, FALSE, {}, ev)
    /\ UNCHANGED <<store, registeredPools, seq, now>>

CallFetchTokenMetadata ==
    /\ NoCallYet
    /\ \E tokenAddress \in MetadataTokens, rpc \in RpcOutcomes :
        Call("fetchTokenMetadata",
             [chainId |-> 0, tokenAddress |-> tokenAddress, rpc |-> rpc,
              result |-> fetchTokenMetadata(tokenAddress, rpc)])

CallGetAmountDelta ==
    /\ NoCallYet
    /\ \E a \in SqrtPricesX96, b \in SqrtPricesX96, liquidity \in LiquidityDeltas :
        Call("getAmountDelta",
             [chainId |-> 0, sqrtPriceAX96 |-> a, sqrtPriceBX96 |-> b,
              liquidity |-> liquidity,
              amount0 |-> getAmount0Delta(a, b, liquidity),
              amount1 |-> getAmount1Delta(a, b, liquidity)])

CallGetLiquidityAmounts ==
    /\ NoCallYet
    /\ \E current \in SqrtPricesX96, lower \in SqrtPricesX96, upper \in SqrtPricesX96,
       liquidityDelta \in LiquidityDeltas :
        Call("getLiquidityAmounts",
             [chainId |-> 0, currentSqrtPriceX96 |-> current, sqrtPriceLowerX96 |-> lower,
              sqrtPriceUpperX96 |-> upper, liquidityDelta |-> liquidityDelta,
              result |-> getLiquidityAmounts(current, lower, upper, liquidityDelta)])

CallConvertTokenToDecimal ==
    /\ NoCallYet
    /\ \E tokenAmount \in RawAmounts, decimals \in 0 .. MaxDecimals :
        Call("convertTokenToDecimal",
             [chainId |-> 0, tokenAmount |-> tokenAmount, decimals |-> decimals,
              result |-> convertTokenToDecimal(tokenAmount, decimals)])

CallGetDay ==
    /\ NoCallYet
    /\ \E t1 \in DayTimestamps, t2 \in DayTimestamps :
        Call("getDayId",
             [chainId |-> 0, timestamp |-> t1, other |-> t2,
              dayId |-> getDayId(t1), otherDayId |-> getDayId(t2),
              dayStartTimestamp |-> getDayStartTimestamp(t1)])

NextUtils ==
    \/ CallFetchTokenMetadata
    \/ CallGetAmountDelta
    \/ CallGetLiquidityAmounts
    \/ CallConvertTokenToDecimal
    \/ CallGetDay

SpecUtils == Init /\ [][NextUtils]_vars

\* C13: fetchTokenMetadata returns, for every combination of failing calls,
\* a record in which each failed field holds its default ("UNKNOWN",
\* "Unknown Token", 18) and each successful field holds the fetched value.
MetadataFallsBackPerField ==
    last.op = "fetchTokenMetadata" =>
        LET ev      == last.ev
            fetched == OnChainMetadata(toLowerCase(ev.tokenAddress))
        IN  /\ DOMAIN ev.result = {"symbol", "name", "decimals"}
            /\ ev.result.symbol = (IF ev.rpc.symbol THEN fetched.symbol ELSE "UNKNOWN")
            /\ ev.result.name = (IF ev.rpc.name THEN fetched.name ELSE "Unknown Token")
            /\ ev.result.decimals = (IF ev.rpc.decimals THEN fetched.decimals ELSE 18)

\* Only the name call of a 6-decimals token failed.
MetadataFallbackWitness ==
    /\ last.op = "fetchTokenMetadata"
    /\ last.ev.rpc = [symbol |-> TRUE, name |-> FALSE, decimals |-> TRUE]
    /\ last.ev.result = [symbol |-> "USDC", name |-> "Unknown Token", decimals |-> 6]

\* C15: getAmount0Delta and getAmount1Delta are antisymmetric in the sign of
\* liquidity: amount(bounds, L) = -amount(bounds, -L).
AmountDeltaAntisymmetric ==
    last.op = "getAmountDelta" =>
        LET ev == last.ev
        IN  /\ ev.amount0 = 0 - getAmount0Delta(ev.sqrtPriceAX96, ev.sqrtPriceBX96,
                                                0 - ev.liquidity)
            /\ ev.amount1 = 0 - getAmount1Delta(ev.sqrtPriceAX96, ev.sqrtPriceBX96,
                                                0 - ev.liquidity)

\* C16: getLiquidityAmounts returns amount1 = 0 when the current sqrt price
\* equals sqrtLower and amount0 = 0 when it equals sqrtUpper, for every
\* liquidity delta and every sqrtLower < sqrtUpper.
LiquidityAmountsAtBounds ==
    (last.op = "getLiquidityAmounts"
        /\ last.ev.sqrtPriceLowerX96 < last.ev.sqrtPriceUpperX96) =>
        /\ last.ev.currentSqrtPriceX96 = last.ev.sqrtPriceLowerX96 =>
               last.ev.result.amount1 = 0
        /\ last.ev.currentSqrtPriceX96 = last.ev.sqrtPriceUpperX96 =>
               last.ev.result.amount0 = 0

\* Liquidity removed with the price at the lower bound: token0 only.
LiquidityAmountsWitness ==
    /\ last.op = "getLiquidityAmounts"
    /\ last.ev.sqrtPriceLowerX96 < last.ev.sqrtPriceUpperX96
    /\ last.ev.currentSqrtPriceX96 = last.ev.sqrtPriceLowerX96
    /\ last.ev.liquidityDelta < 0
    /\ last.ev.result.amount0 < 0
    /\ last.ev.result.amount1 = 0

\* The integer part of a decimal.
BDtruncate(x) ==
    IF x.e <= 0 THEN x.m * Pow10(0 - x.e) ELSE BigIntDiv(x.m, Pow10(x.e))

DayBuckets ==
    last.op = "getDayId" =>
        LET ev == last.ev
        IN  /\ ev.dayStartTimestamp = (ev.timestamp \div 86400) * 86400
            /\ (ev.dayId = ev.otherDayId) <=>
                   (ev.timestamp \div 86400 = ev.other \div 86400)

\* The last second of 2024-02-29 against the first of 2024-03-01.
DayBucketsWitness ==
    /\ last.op = "getDayId"
    /\ last.ev.timestamp = 1709251199 /\ last.ev.other = 1709251200
    /\ last.ev.dayId = <<2024, 2, 29>> /\ last.ev.otherDayId = <<2024, 3, 1>>
    /\ last.ev.dayStartTimestamp = 1709164800


-----------------------------------------------------------------------------
(* Buy / sell tracking of v3 swaps.                                         *)

\* The raw PING leg of a v3 swap event on its pool (0 without a PING side).
V3SwapPingRaw(ev) ==
    LET pool == PoolStore[<<ev.chainId, toLowerCase(ev.srcAddress)>>]
    IN  SwapPingAmountRaw(toLowerCase(pool.token0), toLowerCase(pool.token1),
                          ev.params.amount0, ev.params.amount1)

V3SwapOnPingPool(ev) ==
    LET pool == PoolStore[<<ev.chainId, toLowerCase(ev.srcAddress)>>]
    IN  toLowerCase(PING_TOKEN_ADDRESS) \in {toLowerCase(pool.token0), toLowerCase(pool.token1)}

\* C19: a committed v3 swap with a non-zero PING leg and a transaction
\* originator books a buy (positive leg) or a sell (negative leg) on the
\* Account of event.transaction.from, and touches no other Account.
SwapBooksOriginatorAccount ==
    [][ (/\ Committed(last', "UniswapV3Pool.Swap")
         /\ ~V3PoolMissing(last'.ev)
         /\ V3SwapPingRaw(last'.ev) # 0
         /\ last'.ev.txFrom # undefined) =>
        LET ev         == last'.ev
            originator == <<ev.chainId, toLowerCase(ev.txFrom[1])>>
            buys       == IF V3SwapPingRaw(ev) > 0 THEN 1 ELSE 0
            sells      == IF V3SwapPingRaw(ev) < 0 THEN 1 ELSE 0
        IN  /\ DOMAIN AccountStore' = DOMAIN AccountStore
            /\ \A id \in DOMAIN AccountStore :
                   id # originator => AccountStore'[id] = AccountStore[id]
            /\ originator \in DOMAIN AccountStore =>
                   /\ AccountStore'[originator].totalBuys =
                          AccountStore[originator].totalBuys + buys
                   /\ AccountStore'[originator].totalSells =
                          AccountStore[originator].totalSells + sells ]_vars

\* C20: a committed v3 Swap on a PING pool whose event carries no
\* transaction.from logs a warning and leaves every Account as it was, while
\* the Pool is updated, the Swap record is created and the day's
\* DailyPoolActivity counts the swap.
NoOriginatorSkipsTracking ==
    [][ (/\ Committed(last', "UniswapV3Pool.Swap")
         /\ ~V3PoolMissing(last'.ev)
         /\ V3SwapOnPingPool(last'.ev)
         /\ last'.ev.txFrom = undefined) =>
        LET ev      == last'.ev
            poolId  == <<ev.chainId, toLowerCase(ev.srcAddress)>>
            dailyId == <<poolId, getDayId(ev.timestamp)>>
        IN  /\ last'.warned
            /\ AccountStore' = AccountStore
            /\ "Account" \notin last'.writes
            /\ PoolStore'[poolId].txCount = PoolStore[poolId].txCount + 1
            /\ PoolStore'[poolId].lastSwapAt = ev.timestamp
            /\ PoolStore'[poolId].liquidity = ev.params.liquidity
            /\ EventId(ev) \notin DOMAIN SwapStore
            /\ EventId(ev) \in DOMAIN SwapStore'
            /\ SwapStore'[EventId(ev)].pool_id = poolId
            /\ dailyId \in DOMAIN DailyPoolActivityStore'
            /\ DailyPoolActivityStore'[dailyId].dailySwaps =
                   IF dailyId \in DOMAIN DailyPoolActivityStore
                   THEN DailyPoolActivityStore[dailyId].dailySwaps + 1
                   ELSE 1
            /\ {"Pool", "Swap", "DailyPoolActivity"} \subseteq last'.writes ]_vars

\* A swap without transaction.from buying PING out of the PING pool while the
\* recipient has an Account.
NoOriginatorWitness ==
    /\ Committed(last, "UniswapV3Pool.Swap")
    /\ last.ev.txFrom = undefined
    /\ last.warned
    /\ last.writes = {"Pool", "Swap", "DailyPoolActivity"}
    /\ last.ev.params.amount1 > 0
    /\ <<last.ev.chainId, toLowerCase(last.ev.srcAddress)>> \in DOMAIN PoolStore
    /\ V3SwapOnPingPool(last.ev)
    /\ <<last.ev.chainId, toLowerCase(last.ev.params.recipient)>> \in DOMAIN AccountStore
    /\ EventId(last.ev) \in DOMAIN SwapStore


-----------------------------------------------------------------------------
(* The events of two chains (8453 and 1), committed interleaved in any      *)
(* order: transfers and the singleton PoolManager's events.  The same pool  *)
(* key gives the same pool id on either chain.                              *)

Chains == {8453, 1}

ChainTransfers == {<<ADDRESS_ZERO, USER_A, 2>>, <<USER_A, USER_B, 1>>}

ChainSwapParams ==
    {[id |-> id, sender |-> USER_A, amount0 |-> -2, amount1 |-> 1000000,
      sqrtPriceX96 |-> 2 * Q96, liquidity |-> 1000, tick |-> 13864, swapFee |-> 3000] :
        id \in {POOL_ID_A, POOL_ID_B}}

\* Tick bounds inside the valid range, and one step outside it on either side.
ChainTickBounds == {<<-6932, 6932>>, <<MIN_TICK - 1, 6932>>, <<-6932, MAX_TICK + 1>>}

ChainModifyLiquidityParams ==
    {[id |-> id, sender |-> USER_A, tickLower |-> t[1], tickUpper |-> t[2],
      liquidityDelta |-> 1000, salt |-> "0x00"] :
        id \in {POOL_ID_A, POOL_ID_B}, t \in ChainTickBounds}

ChainTransferEvent ==
    /\ seq < MaxEvents
    /\ \E chainId \in Chains, t \in ChainTransfers, timestamp \in NextTimestamps :
           PingTransfer(chainId, t[1], t[2], t[3], timestamp, FALSE)

ChainV4InitializeEvent ==
    /\ seq < MaxEvents
    /\ \E chainId \in Chains, params \in V4InitializeParams, timestamp \in NextTimestamps :
           V4Initialize(chainId, params, RpcAllOk, RpcAllOk, timestamp, FALSE)

ChainV4SwapEvent ==
    /\ seq < MaxEvents
    /\ \E chainId \in Chains, params \in ChainSwapParams, timestamp \in NextTimestamps :
           V4Swap(chainId, params, Some(USER_A), timestamp, FALSE)

ChainV4ModifyLiquidityEvent ==
    /\ seq < MaxEvents
    /\ \E chainId \in Chains, params \in ChainModifyLiquidityParams,
          timestamp \in NextTimestamps :
           V4ModifyLiquidity(chainId, params, timestamp, FALSE)

NextChains ==
    \/ ChainTransferEvent
    \/ ChainV4InitializeEvent
    \/ ChainV4SwapEvent
    \/ ChainV4ModifyLiquidityEvent

SpecChains == Init /\ [][NextChains]_vars

-----------------------------------------------------------------------------
(* Independence of the chains.                                              *)

\* The entities of a store that belong to chain c.
OfChain(s, c) == [id \in {i \in DOMAIN s : s[i].chainId = c} |-> s[id]]

\* The registry entries of the pools that have a PoolV4 entity on chain c.
RegistryOfChain(c) ==
    [p \in {q \in DOMAIN PoolV4RegistryStore : <<c, q>> \in DOMAIN PoolV4Store} |->
        PoolV4RegistryStore[p]]

\* The derived state of chain c.
ChainView(c) ==
    <<OfChain(TokenStore, c), OfChain(AccountStore, c), OfChain(TransferStore, c),
      OfChain(DailyTokenActivityStore, c), OfChain(PoolStore, c), OfChain(SwapStore, c),
      OfChain(DailyPoolActivityStore, c), OfChain(PoolV4Store, c), OfChain(SwapV4Store, c),
      OfChain(ModifyLiquidityV4Store, c), RegistryOfChain(c)>>

\* Every entity of the store is kept under an id that carries its chain id.
ChainKeyed(s) == \A id \in DOMAIN s : s[id].id = id /\ s[id].chainId = id[1]

IdsCarryChain ==
    /\ ChainKeyed(TokenStore) /\ ChainKeyed(AccountStore) /\ ChainKeyed(TransferStore)
    /\ ChainKeyed(DailyTokenActivityStore) /\ ChainKeyed(PoolStore) /\ ChainKeyed(SwapStore)
    /\ ChainKeyed(DailyPoolActivityStore) /\ ChainKeyed(PoolV4Store)
    /\ ChainKeyed(SwapV4Store) /\ ChainKeyed(ModifyLiquidityV4Store)

\* A pool with a PoolV4 entity on some chain is in the registry as PING pool.
RegistryCoversPools ==
    \A id \in DOMAIN PoolV4Store :
        /\ id[2] \in DOMAIN PoolV4RegistryStore
        /\ PoolV4RegistryStore[id[2]].isPingPool

\* An event of one chain leaves the derived state of every other chain as
\* it was.
OtherChainsUntouched ==
    \A c \in Chains : c # last'.ev.chainId => ChainView(c)' = ChainView(c)

\* The registry lookup of a Swap or ModifyLiquidity decides nothing that the
\* chain's own PoolV4 lookup would not: without a PoolV4 entity of the
\* event's chain, nothing is written whether or not the pool id is
\* registered (by this chain or by another).
RegistryLookupDecidesNothing ==
    (/\ last'.op \in {"UniswapV4PoolManager.Swap", "UniswapV4PoolManager.ModifyLiquidity"}
     /\ V4PoolMissing(last'.ev)) =>
        /\ last'.writes = {}
        /\ store' = store

-----------------------------------------------------------------------------
(* Tick bounds out of range in ModifyLiquidity.                             *)

\* A tick bound of the event lies outside [-887272, 887272].
TickBoundOutside(ev) ==
    \E t \in {ev.params.tickLower, ev.params.tickUpper} : t < -887272 \/ t > 887272

\* C12 as stated: a ModifyLiquidity event with a tick bound outside
\* [-887272, 887272] fails with the uncaught error of getSqrtRatioAtTick,
\* and neither the PoolV4 update nor the ModifyLiquidityV4 record is written.
OutOfRangeTickFails ==
    [][ (/\ last'.op = "UniswapV4PoolManager.ModifyLiquidity"
         /\ TickBoundOutside(last'.ev)) =>
        /\ last'.threw
        /\ PoolV4Store' = PoolV4Store
        /\ ModifyLiquidityV4Store' = ModifyLiquidityV4Store ]_vars

\* C12, amended: the event fails with the uncaught error when its pool is
\* tracked (registered and with a PoolV4 entity on the event's chain); for
\* any other pool the handler returns before the tick math, without error.
\* In both cases neither entity is written.
OutOfRangeTickFailsOnTrackedPool ==
    [][ (/\ last'.op = "UniswapV4PoolManager.ModifyLiquidity"
         /\ TickBoundOutside(last'.ev)) =>
        /\ last'.threw <=> ~V4PoolMissing(last'.ev)
        /\ last'.writes = {}
        /\ PoolV4Store' = PoolV4Store
        /\ ModifyLiquidityV4Store' = ModifyLiquidityV4Store ]_vars

\* A ModifyLiquidity with tickUpper = 887273 on an initialised PING pool.
OutOfRangeTickWitness ==
    /\ last.op = "UniswapV4PoolManager.ModifyLiquidity"
    /\ last.ev.params.tickUpper = 887273
    /\ last.threw
    /\ <<last.ev.chainId, last.ev.params.id>> \in DOMAIN PoolV4Store
    /\ PoolV4Store[<<last.ev.chainId, last.ev.params.id>>].liquidity = 0
    /\ DOMAIN ModifyLiquidityV4Store = {}


-----------------------------------------------------------------------------
(* Pool creation with its metadata resolution in flight.  The handler       *)
(* awaits the eth_calls of fetchTokenMetadata; `call` hands the request to  *)
(* fetch with no timeout and no abort signal, so the await ends when the    *)
(* endpoint answers (with a result or an error), and not before.            *)

\* What the RPC endpoint does with the requests of one pool creation.
EndpointBehaviours == {"answers", "silent"}

\* The commit-pass PoolCreated handler is at its await.
PoolCreatedAwaiting == last.op = "UniswapV3Factory.PoolCreated.await"

\* The handler of a PING pool's creation runs up to
\* `await Promise.all([fetchTokenMetadata(token0), fetchTokenMetadata(token1)])`:
\* nothing is set yet.  Events are processed one at a time.
PoolCreatedBegin ==
    /\ seq < MaxEvents
    /\ ~PoolCreatedAwaiting
    /\ \E chainId \in BaseChain, ft \in FeeTiers, timestamp \in NextTimestamps,
          endpoint \in EndpointBehaviours, rpc0 \in RpcOutcomes, rpc1 \in RpcOutcomes :
        /\ ~Has(PoolStore, <<chainId, toLowerCase(POOL_A)>>)
        /\ endpoint = "silent" => rpc0 = RpcAllFail /\ rpc1 = RpcAllFail
        /\ last' = Invocation("UniswapV3Factory.PoolCreated.await", FALSE, FALSE, {},
                      [chainId |-> chainId, token0 |-> USDC_ADDRESS,
                       token1 |-> PING_TOKEN_ADDRESS, fee |-> ft[1], tickSpacing |-> ft[2],
                       pool |-> POOL_A, timestamp |-> timestamp,
                       endpoint |-> endpoint, rpc0 |-> rpc0, rpc1 |-> rpc1])
        /\ UNCHANGED <<store, registeredPools, seq, now>>

\* The endpoint has answered every call: each fetcher returns its value or
\* its default, the await ends and the handler runs to its end.
PoolCreatedSettle ==
    /\ PoolCreatedAwaiting
    /\ last.ev.endpoint = "answers"
    /\ PoolCreated(last.ev.chainId, last.ev.token0, last.ev.token1, last.ev.fee,
                   last.ev.tickSpacing, last.ev.pool, last.ev.rpc0, last.ev.rpc1,
                   last.ev.timestamp, FALSE)

NextMetadata == PoolCreatedBegin \/ PoolCreatedSettle

\* The handler is scheduled whenever it can take a step.
SpecMetadata == Init /\ [][NextMetadata]_vars /\ WF_vars(NextMetadata)

\* C14: the commit of a PING pool's creation eventually completes and the
\* Pool entity exists, whatever the metadata endpoint does.
PoolCreationCompletes ==
    PoolCreatedAwaiting ~>
        (/\ Committed(last, "UniswapV3Factory.PoolCreated")
         /\ <<last.ev.chainId, toLowerCase(last.ev.pool)>> \in DOMAIN PoolStore)

-----------------------------------------------------------------------------
(* Rounding of the amount deltas.                                           *)

\* c is the ceiling of n / d, for n >= 0 and d > 0.
IsCeilOf(c, n, d) == (c - 1) * d < n /\ n <= c * d

\* f is the floor of n / d, for n >= 0 and d > 0.
IsFloorOf(f, n, d) == f * d <= n /\ n < (f + 1) * d

\* C29: for sqrt-price bounds lower <= upper and a liquidity magnitude L > 0,
\* the amount returned for +L is the ceiling, and the amount returned for -L
\* the negated floor, of the exact value L * (upper - lower) * Q96 /
\* (upper * lower) for token0 and L * (upper - lower) / Q96 for token1; the
\* addition's magnitude is the removal's or exceeds it by one.
AmountDeltaRoundsUpForAddDownForRemove ==
    (last.op = "getAmountDelta" /\ last.ev.liquidity # 0) =>
        LET ev    == last.ev
            lower == IF ev.sqrtPriceAX96 > ev.sqrtPriceBX96 THEN ev.sqrtPriceBX96
                     ELSE ev.sqrtPriceAX96
            upper == IF ev.sqrtPriceAX96 > ev.sqrtPriceBX96 THEN ev.sqrtPriceAX96
                     ELSE ev.sqrtPriceBX96
            L     == IF ev.liquidity < 0 THEN 0 - ev.liquidity ELSE ev.liquidity
            n0    == L * (upper - lower) * Q96
            d0    == upper * lower
            n1    == L * (upper - lower)
            add0  == getAmount0Delta(ev.sqrtPriceAX96, ev.sqrtPriceBX96, L)
            add1  == getAmount1Delta(ev.sqrtPriceAX96, ev.sqrtPriceBX96, L)
            rem0  == 0 - getAmount0Delta(ev.sqrtPriceAX96, ev.sqrtPriceBX96, 0 - L)
            rem1  == 0 - getAmount1Delta(ev.sqrtPriceAX96, ev.sqrtPriceBX96, 0 - L)
        IN  /\ ev.liquidity > 0 =>
                   IsCeilOf(ev.amount0, n0, d0) /\ IsCeilOf(ev.amount1, n1, Q96)
            /\ ev.liquidity < 0 =>
                   IsFloorOf(0 - ev.amount0, n0, d0) /\ IsFloorOf(0 - ev.amount1, n1, Q96)
            /\ add0 - rem0 \in {0, 1}
            /\ add1 - rem1 \in {0, 1}

\* A removal whose exact token1 value is not an integer: the removal gives 0
\* where the addition of the same magnitude gives 1.
AmountDeltaRoundingWitness ==
    /\ last.op = "getAmountDelta"
    /\ last.ev.liquidity = -1
    /\ last.ev.sqrtPriceAX96 = Q96 /\ last.ev.sqrtPriceBX96 = Q96 + 1
    /\ last.ev.amount1 = 0
    /\ getAmount1Delta(last.ev.sqrtPriceAX96, last.ev.sqrtPriceBX96, 1) = 1

-----------------------------------------------------------------------------
(* Lifetime of Account records.                                             *)

\* C21: a committed v3 swap with a non-zero PING leg and a transaction
\* originator leaves an Account with the swap's buy or sell counted for the
\* address it is classified for (the originator or the recipient), also
\* when that address had no Account before; and no step removes an Account.
SwapCreatesMissingAccount ==
    [][ /\ DOMAIN AccountStore \subseteq DOMAIN AccountStore'
        /\ (/\ Committed(last', "UniswapV3Pool.Swap")
            /\ ~V3PoolMissing(last'.ev)
            /\ V3SwapPingRaw(last'.ev) # 0
            /\ last'.ev.txFrom # undefined) =>
           LET ev == last'.ev
           IN  \E address \in {toLowerCase(ev.txFrom[1]), toLowerCase(ev.params.recipient)} :
                   /\ <<ev.chainId, address>> \in DOMAIN AccountStore'
                   /\ IF V3SwapPingRaw(ev) > 0
                      THEN AccountStore'[<<ev.chainId, address>>].totalBuys >= 1
                      ELSE AccountStore'[<<ev.chainId, address>>].totalSells >= 1 ]_vars

-----------------------------------------------------------------------------
(* The v3 pools of one chain from their creation on: the factory's          *)
(* PoolCreated with the token addresses in either case and order, the       *)
(* pools' Initialize and their swaps at changing price and liquidity.       *)

\* token0 / token1 of PoolCreated; the PING address arrives in checksum case
\* or already lower-cased.
CreatedTokenPairs ==
    {<<USDC_ADDRESS, PING_TOKEN_ADDRESS>>,
     <<toLowerCase(PING_TOKEN_ADDRESS), USDC_ADDRESS>>,
     <<USDC_ADDRESS, WETH_ADDRESS>>}

\* sqrtPriceX96 and tick of Initialize.
PoolInitializeParams == {<<Q96, -5>>, <<3 * Q96, 7>>}

PoolSwapParams ==
    {[sender |-> USER_B, recipient |-> USER_A, amount0 |-> -1000000, amount1 |-> 2,
      sqrtPriceX96 |-> v[1], liquidity |-> v[2], tick |-> v[3]] :
        v \in {<<2 * Q96, 1000, 3>>, <<Q96, 2000, 0>>, <<Q96, 0, 0>>}}

\* The factory emits PoolCreated once for a pool address.
PoolsCreatedEvent ==
    /\ seq < MaxEvents
    /\ \E chainId \in BaseChain, ft \in FeeTiers, timestamp \in NextTimestamps,
          tokens \in CreatedTokenPairs, pool \in {POOL_A, POOL_B} :
        /\ ~Has(PoolStore, <<chainId, toLowerCase(pool)>>)
        /\ PoolCreated(chainId, tokens[1], tokens[2], ft[1], ft[2], pool, RpcAllOk, RpcAllOk,
                       timestamp, FALSE)

PoolsInitializeEvent ==
    /\ seq < MaxEvents
    /\ \E chainId \in BaseChain, srcAddress \in {POOL_A, POOL_B},
          p \in PoolInitializeParams, timestamp \in NextTimestamps :
           V3Initialize(chainId, srcAddress, p[1], p[2], timestamp, FALSE)

PoolsSwapEvent ==
    /\ seq < MaxEvents
    /\ \E chainId \in BaseChain, srcAddress \in {POOL_A, POOL_B}, params \in PoolSwapParams,
          timestamp \in NextTimestamps :
           V3Swap(chainId, srcAddress, params, Some(USER_A), timestamp, FALSE)

NextPools == PoolsCreatedEvent \/ PoolsInitializeEvent \/ PoolsSwapEvent

SpecPools == Init /\ [][NextPools]_vars

-----------------------------------------------------------------------------
(* Properties of the v3 pool entities.                                      *)

\* C22: a v3 Pool is flagged active exactly when its liquidity is positive.
PoolActiveIffLiquidity ==
    \A id \in DOMAIN PoolStore : PoolStore[id].isActive <=> PoolStore[id].liquidity > 0

\* The tracked token's address, lower-cased.
TrackedTokenLowerCase == "0xd85c31854c2b0fb40aaa9e2fc4da23c21f829d46"

\* C23: a committed PoolCreated creates the Pool entity and registers the
\* pool address exactly when token0 or token1 is the tracked token, compared
\* without regard to case; the Pool starts with liquidity, volumes, TVL and
\* txCount zero and isActive false; for any other pool the entity store and
\* the registered pools stay as they were.
PoolCreatedIffTracked ==
    [][ Committed(last', "UniswapV3Factory.PoolCreated") =>
        LET ev      == last'.ev
            poolId  == <<ev.chainId, toLowerCase(ev.pool)>>
            tracked == TrackedTokenLowerCase \in {toLowerCase(ev.token0), toLowerCase(ev.token1)}
        IN  IF tracked
            THEN /\ poolId \in DOMAIN PoolStore'
                 /\ PoolStore'[poolId].liquidity = 0
                 /\ PoolStore'[poolId].volumeToken0 = ZERO_BD
                 /\ PoolStore'[poolId].volumeToken1 = ZERO_BD
                 /\ PoolStore'[poolId].totalValueLockedToken0 = ZERO_BD
                 /\ PoolStore'[poolId].totalValueLockedToken1 = ZERO_BD
                 /\ PoolStore'[poolId].txCount = 0
                 /\ PoolStore'[poolId].isActive = FALSE
                 /\ ev.pool \in registeredPools'
                 /\ \A id \in DOMAIN PoolStore : id # poolId => PoolStore'[id] = PoolStore[id]
                 /\ UNCHANGED <<tokenVars, SwapStore, DailyPoolActivityStore, v4Vars>>
            ELSE /\ store' = store
                 /\ registeredPools' = registeredPools ]_vars

\* The second event creates and registers a pool whose token0 is the PING
\* address in lower case; the event before it left no Pool.
PoolCreatedWitness ==
    /\ Committed(last, "UniswapV3Factory.PoolCreated")
    /\ last.ev.token0 = TrackedTokenLowerCase
    /\ last.ev.token0 # PING_TOKEN_ADDRESS
    /\ <<last.ev.chainId, toLowerCase(last.ev.pool)>> \in DOMAIN PoolStore
    /\ registeredPools = {last.ev.pool}
    /\ last.seq = 1
    /\ Cardinality(DOMAIN PoolStore) = 1

\* C24: a committed Initialize of an existing v3 Pool sets the pool's
\* sqrtPriceX96 and tick to the event's values and isActive to true, and
\* changes no other field of the pool and no other entity.
InitializeSetsPriceTickActiveOnly ==
    [][ (Committed(last', "UniswapV3Pool.Initialize") /\ ~V3PoolMissing(last'.ev)) =>
        LET ev     == last'.ev
            poolId == <<ev.chainId, toLowerCase(ev.srcAddress)>>
            before == PoolStore[poolId]
            after  == PoolStore'[poolId]
        IN  /\ after.sqrtPriceX96 = ev.sqrtPriceX96
            /\ after.tick = ev.tick
            /\ after.isActive = TRUE
            /\ DOMAIN after = DOMAIN before
            /\ \A f \in DOMAIN before \ {"sqrtPriceX96", "tick", "isActive"} :
                   after[f] = before[f]
            /\ DOMAIN PoolStore' = DOMAIN PoolStore
            /\ \A id \in DOMAIN PoolStore : id # poolId => PoolStore'[id] = PoolStore[id]
            /\ UNCHANGED <<tokenVars, SwapStore, DailyPoolActivityStore, v4Vars>> ]_vars

\* An Initialize of a pool that has already seen a swap: price and tick move
\* to the event's, liquidity and the swap count stay.
InitializeWitness ==
    /\ Committed(last, "UniswapV3Pool.Initialize")
    /\ <<last.ev.chainId, toLowerCase(last.ev.srcAddress)>> \in DOMAIN PoolStore
    /\ LET pool == PoolStore[<<last.ev.chainId, toLowerCase(last.ev.srcAddress)>>]
       IN  /\ pool.txCount = 1 /\ pool.liquidity = 1000
           /\ pool.sqrtPriceX96 = 3 * Q96 /\ pool.tick = 7
           /\ pool.isActive


\* The Swap records of a pool on a UTC day: the day's committed swaps.
SwapsOfDay(poolId, dayId) ==
    {id \in DOMAIN SwapStore :
        SwapStore[id].pool_id = poolId /\ getDayId(SwapStore[id].timestamp) = dayId}

\* Swap a was committed before swap b: (block, log index) order.
SwapBefore(a, b) == a[2] < b[2] \/ (a[2] = b[2] /\ a[3] < b[3])

\* C30: a DailyPoolActivity row carries, as liquidityStart and
\* sqrtPriceX96Start, the values of the first swap committed for its pool on
\* its day, and as liquidityEnd and sqrtPriceX96End those of the latest one.
DailyPoolStartAndEnd ==
    \A rowId \in DOMAIN DailyPoolActivityStore :
        LET row   == DailyPoolActivityStore[rowId]
            swaps == SwapsOfDay(rowId[1], rowId[2])
        IN  /\ swaps # {}
            /\ \A first \in swaps :
                   (\A other \in swaps \ {first} : SwapBefore(first, other)) =>
                       /\ row.liquidityStart = SwapStore[first].liquidity
                       /\ row.sqrtPriceX96Start = SwapStore[first].sqrtPriceX96
            /\ \A latest \in swaps :
                   (\A other \in swaps \ {latest} : SwapBefore(other, latest)) =>
                       /\ row.liquidityEnd = SwapStore[latest].liquidity
                       /\ row.sqrtPriceX96End = SwapStore[latest].sqrtPriceX96

\* Two swaps of one pool on one day, at different liquidity and price.
DailyPoolStartAndEndWitness ==
    \E rowId \in DOMAIN DailyPoolActivityStore :
        LET row == DailyPoolActivityStore[rowId]
        IN  /\ row.dailySwaps = 2
            /\ Cardinality(SwapsOfDay(rowId[1], rowId[2])) = 2
            /\ row.liquidityStart = 1000 /\ row.liquidityEnd = 2000
            /\ row.sqrtPriceX96Start = 2 * Q96 /\ row.sqrtPriceX96End = Q96

-----------------------------------------------------------------------------
(* Buy / sell aggregates kept by the Transfer handler.                      *)

\* The sell, and the buy, aggregates of an Account that may not exist yet.
SellAggregates(accounts, id) ==
    IF id \in DOMAIN accounts
    THEN <<accounts[id].totalSells, accounts[id].totalSellVolume>>
    ELSE <<ZERO_BI, ZERO_BD>>

BuyAggregates(accounts, id) ==
    IF id \in DOMAIN accounts
    THEN <<accounts[id].totalBuys, accounts[id].totalBuyVolume>>
    ELSE <<ZERO_BI, ZERO_BD>>

-----------------------------------------------------------------------------
(* Daily activity of V4 pools.                                              *)

\* C26: a committed V4 Swap on a tracked pool upserts, as the v3 Swap does,
\* the pool's DailyPoolActivity row of the event's UTC day: one more swap,
\* end-of-day liquidity and price those of the event.
V4SwapUpsertsDailyPoolActivity ==
    [][ (Committed(last', "UniswapV4PoolManager.Swap") /\ ~V4PoolMissing(last'.ev)) =>
        LET ev      == last'.ev
            dailyId == <<<<ev.chainId, ev.params.id>>, getDayId(ev.timestamp)>>
        IN  /\ dailyId \in DOMAIN DailyPoolActivityStore'
            /\ DailyPoolActivityStore'[dailyId].dailySwaps =
                   IF dailyId \in DOMAIN DailyPoolActivityStore
                   THEN DailyPoolActivityStore[dailyId].dailySwaps + 1
                   ELSE 1
            /\ DailyPoolActivityStore'[dailyId].liquidityEnd = ev.params.liquidity
            /\ DailyPoolActivityStore'[dailyId].sqrtPriceX96End = ev.params.sqrtPriceX96 ]_vars

-----------------------------------------------------------------------------
(* Liquidity of V4 pools: the PoolManager's Initialize, Swap and            *)
(* ModifyLiquidity events of chain 8453, committed in any order, with       *)
(* positions below, around and above the price a pool is initialized at;    *)
(* one event more than MaxEvents, so that liquidity can be added, the price *)
(* moved and the liquidity removed once the pool is initialized.            *)

LiquidityModifyParams ==
    {[id |-> POOL_ID_A, sender |-> USER_A, tickLower |-> t[1], tickUpper |-> t[2],
      liquidityDelta |-> d, salt |-> "0x00"] : 
          t \in {<<-6932, 6932>>, <<6932, 13864>>, <<-13864, -6932>>}, d \in LiquidityDeltas}
    \cup {[id |-> POOL_ID_B, sender |-> USER_A, tickLower |-> -6932, tickUpper |-> 6932,
           liquidityDelta |-> 1000, salt |-> "0x00"]}

\* Swaps that leave the pool's price at the upper end of the model's ticks,
\* with and without liquidity in range there.
LiquiditySwapParams ==
    {[id |-> POOL_ID_A, sender |-> USER_A, amount0 |-> -2, amount1 |-> 1000000,
      sqrtPriceX96 |-> 2 * Q96, liquidity |-> l, tick |-> 13864, swapFee |-> 3000] :
        l \in {0, 1000}}

\* The PoolManager initializes a pool id once.
LiquidityInitializeEvent ==
    /\ seq <= MaxEvents
    /\ \E chainId \in BaseChain, params \in V4InitializeParams, timestamp \in NextTimestamps :
        /\ ~Has(PoolV4Store, <<chainId, params.id>>)
        /\ V4Initialize(chainId, params, RpcAllOk, RpcAllOk, timestamp, FALSE)

LiquiditySwapEvent ==
    /\ seq <= MaxEvents
    /\ \E chainId \in BaseChain, params \in LiquiditySwapParams, timestamp \in NextTimestamps :
           V4Swap(chainId, params, Some(USER_A), timestamp, FALSE)

LiquidityModifyEvent ==
    /\ seq <= MaxEvents
    /\ \E chainId \in BaseChain, params \in LiquidityModifyParams, timestamp \in NextTimestamps :
           V4ModifyLiquidity(chainId, params, timestamp, FALSE)

NextLiquidity == LiquidityInitializeEvent \/ LiquiditySwapEvent \/ LiquidityModifyEvent

SpecLiquidity == Init /\ [][NextLiquidity]_vars

\* A committed ModifyLiquidity whose pool is registered as a PING pool and has
\* its PoolV4 entity when the event arrives.
ModifyLiquidityOnTrackedPool(inv) ==
    /\ Committed(inv, "UniswapV4PoolManager.ModifyLiquidity")
    /\ V4IsRegistered(inv.ev.params.id)
    /\ ~V4PoolMissing(inv.ev)

\* The token amounts of the event's liquidity delta at the pool's price.
ModifyLiquidityAmounts(pool, p) ==
    getLiquidityAmounts(pool.sqrtPriceX96, getSqrtRatioAtTick(p.tickLower),
                        getSqrtRatioAtTick(p.tickUpper), p.liquidityDelta)

\* C27: a committed ModifyLiquidity on a tracked V4 pool adds liquidityDelta to
\* the pool's liquidity, sets isActive to (new liquidity > 0), inserts exactly
\* one ModifyLiquidityV4 record, which carries the unsigned token amounts of
\* the delta and is tagged ADD for a positive and REMOVE for a negative delta,
\* and adds these amounts to the pool's TVL per side on an addition and
\* subtracts them on a removal.
ModifyLiquidityUpdatesPoolAndRecords ==
    [][ ModifyLiquidityOnTrackedPool(last') =>
        LET ev      == last'.ev
            d       == ev.params.liquidityDelta
            pid     == <<ev.chainId, ev.params.id>>
            pool    == PoolV4Store[pid]
            new     == PoolV4Store'[pid]
            amounts == ModifyLiquidityAmounts(pool, ev.params)
            rec     == ModifyLiquidityV4Store'[EventId(ev)]
        IN  /\ new.liquidity = pool.liquidity + d
            /\ new.isActive = (new.liquidity > 0)
            /\ EventId(ev) \notin DOMAIN ModifyLiquidityV4Store
            /\ DOMAIN ModifyLiquidityV4Store' = DOMAIN ModifyLiquidityV4Store \cup {EventId(ev)}
            /\ \A id \in DOMAIN ModifyLiquidityV4Store :
                   ModifyLiquidityV4Store'[id] = ModifyLiquidityV4Store[id]
            /\ rec.pool_id = pid
            /\ rec.liquidityDelta = d
            /\ rec.amount0.m >= 0
            /\ rec.amount1.m >= 0
            /\ BDeq(rec.amount0, convertTokenToDecimal(abs(amounts.amount0), pool.currency0Decimals))
            /\ BDeq(rec.amount1, convertTokenToDecimal(abs(amounts.amount1), pool.currency1Decimals))
            /\ d > 0 =>
                   /\ rec.modificationType = "ADD"
                   /\ new.totalValueLockedCurrency0 = BDplus(pool.totalValueLockedCurrency0, rec.amount0)
                   /\ new.totalValueLockedCurrency1 = BDplus(pool.totalValueLockedCurrency1, rec.amount1)
            /\ d < 0 =>
                   /\ rec.modificationType = "REMOVE"
                   /\ new.totalValueLockedCurrency0 = BDminus(pool.totalValueLockedCurrency0, rec.amount0)
                   /\ new.totalValueLockedCurrency1 = BDminus(pool.totalValueLockedCurrency1, rec.amount1) ]_vars

\* A removal of all the liquidity an earlier addition brought: the pool is
\* left inactive, with one record tagged ADD and one tagged REMOVE.
ModifyLiquidityWitness ==
    /\ Committed(last, "UniswapV4PoolManager.ModifyLiquidity")
    /\ last.writes = {"PoolV4", "ModifyLiquidityV4"}
    /\ last.ev.params.liquidityDelta < 0
    /\ EventId(last.ev) \in DOMAIN ModifyLiquidityV4Store
    /\ ModifyLiquidityV4Store[EventId(last.ev)].modificationType = "REMOVE"
    /\ ModifyLiquidityV4Store[EventId(last.ev)].amount0.m > 0
    /\ ModifyLiquidityV4Store[EventId(last.ev)].amount1.m > 0
    /\ \E id \in DOMAIN ModifyLiquidityV4Store :
           /\ ModifyLiquidityV4Store[id].modificationType = "ADD"
           /\ ModifyLiquidityV4Store[id].amount0.m > 0
    /\ PoolV4Store[<<last.ev.chainId, last.ev.params.id>>].liquidity = 0
    /\ ~PoolV4Store[<<last.ev.chainId, last.ev.params.id>>].isActive

\* C28: a committed ModifyLiquidity that adds liquidity (liquidityDelta > 0)
\* to a position (tickLower < tickUpper) whose range lies above the pool's
\* current sqrt price has amount1 zero and amount0 strictly positive:
\* totalValueLockedCurrency0 strictly increases and totalValueLockedCurrency1
\* is unchanged.
AddBelowRangeIsToken0Only ==
    [][ ( /\ ModifyLiquidityOnTrackedPool(last')
          /\ last'.ev.params.liquidityDelta > 0
          /\ last'.ev.params.tickLower < last'.ev.params.tickUpper
          /\ PoolV4Store[<<last'.ev.chainId, last'.ev.params.id>>].sqrtPriceX96
                 < getSqrtRatioAtTick(last'.ev.params.tickLower) ) =>
        LET ev   == last'.ev
            pid  == <<ev.chainId, ev.params.id>>
            pool == PoolV4Store[pid]
            new  == PoolV4Store'[pid]
            rec  == ModifyLiquidityV4Store'[EventId(ev)]
        IN  /\ rec.amount1 = ZERO_BD
            /\ rec.amount0.m > 0
            /\ BDgt(new.totalValueLockedCurrency0, pool.totalValueLockedCurrency0)
            /\ new.totalValueLockedCurrency1 = pool.totalValueLockedCurrency1 ]_vars

\* Liquidity added to the position above the price the pool was initialized
\* at, after an addition around that price had brought token1 into the pool.
AddBelowRangeWitness ==
    /\ Committed(last, "UniswapV4PoolManager.ModifyLiquidity")
    /\ last.writes = {"PoolV4", "ModifyLiquidityV4"}
    /\ last.ev.params.liquidityDelta > 0
    /\ last.ev.params.tickLower = 6932
    /\ last.ev.params.tickUpper = 13864
    /\ PoolV4Store[<<last.ev.chainId, last.ev.params.id>>].sqrtPriceX96 = Q96
    /\ ModifyLiquidityV4Store[EventId(last.ev)].amount1 = ZERO_BD
    /\ ModifyLiquidityV4Store[EventId(last.ev)].amount0.m > 0
    /\ PoolV4Store[<<last.ev.chainId, last.ev.params.id>>].totalValueLockedCurrency1.m > 0
    /\ Cardinality(DOMAIN ModifyLiquidityV4Store) = 2

-----------------------------------------------------------------------------
(* Account balances under transfers.                                        *)

\* C31: a committed Transfer whose sender and receiver are the same address,
\* neither the zero address nor a pool, leaves that Account's balance as it
\* was (zero for an Account the event creates).
SelfTransferKeepsBalance ==
    [][ ( /\ Committed(last', "Ping.Transfer")
          /\ toLowerCase(last'.ev.from) = toLowerCase(last'.ev.to)
          /\ toLowerCase(last'.ev.from) # ADDRESS_ZERO
          /\ ~Has(PoolStore, <<last'.ev.chainId, toLowerCase(last'.ev.from)>>) ) =>
        LET id == <<last'.ev.chainId, toLowerCase(last'.ev.from)>>
        IN  /\ Has(AccountStore', id)
            /\ BDeq(AccountStore'[id].balance,
                    IF Has(AccountStore, id) THEN AccountStore[id].balance ELSE ZERO_BD) ]_vars


\* C32: every Account's balance is what it received less what it sent.
AccountBalanceIsReceivedLessSent ==
    \A id \in DOMAIN AccountStore :
        BDeq(AccountStore[id].balance,
             BDminus(AccountStore[id].totalReceived, AccountStore[id].totalSent))

\* A transfer has just been committed and some Account has both sent and
\* received, keeping a balance.
AccountBalanceWitness ==
    /\ Committed(last, "Ping.Transfer")
    /\ \E id \in DOMAIN AccountStore :
           /\ AccountStore[id].totalSent.m > 0
           /\ AccountStore[id].totalReceived.m > 0
           /\ AccountStore[id].balance.m > 0


-----------------------------------------------------------------------------
(* Trades: PoolCreated of the PING pool, token transfers in and out of it   *)
(* and its swaps on chain 8453, one event more than MaxEvents so that a     *)
(* Transfer and the Swap after it share a transaction once the pool exists.  *)

TradePoolCreatedEvent ==
    /\ seq <= MaxEvents
    /\ \E chainId \in BaseChain, ft \in FeeTiers, timestamp \in NextTimestamps :
        /\ ~Has(PoolStore, <<chainId, toLowerCase(POOL_A)>>)
        /\ PoolCreated(chainId, USDC_ADDRESS, PING_TOKEN_ADDRESS, ft[1], ft[2], POOL_A,
                       RpcAllOk, RpcAllOk, timestamp, FALSE)

TradeTransferEvent ==
    /\ seq <= MaxEvents
    /\ \E chainId \in BaseChain, timestamp \in NextTimestamps,
          t \in {<<POOL_A, USER_A, 2>>, <<USER_A, POOL_A, 1>>, <<ADDRESS_ZERO, USER_A, 2>>,
                 <<USER_A, USER_B, 1>>, <<USER_A, USER_A, 1>>} :
           PingTransfer(chainId, t[1], t[2], t[3], timestamp, FALSE)

TradeSwapEvent ==
    /\ seq <= MaxEvents
    /\ \E chainId \in BaseChain, timestamp \in NextTimestamps,
          a \in {<<-1000000, 2>>, <<3000000, -1>>} :
           V3Swap(chainId, POOL_A,
                  [sender |-> USER_B, recipient |-> USER_A, amount0 |-> a[1], amount1 |-> a[2],
                   sqrtPriceX96 |-> 2 * Q96, liquidity |-> 1000, tick |-> 0],
                  Some(USER_A), timestamp, FALSE)

NextTrade == TradePoolCreatedEvent \/ TradeTransferEvent \/ TradeSwapEvent

SpecTrade == Init /\ [][NextTrade]_vars

\* The Swap of inv2 completes the trade whose Transfer is inv1: both belong to
\* one transaction, the Transfer moves the swap's PING leg between the swap's
\* pool and the user, and the Transfer is recorded with the given relation.
TradeOf(inv1, inv2, relation) ==
    /\ Committed(inv1, "Ping.Transfer")
    /\ Committed(inv2, "UniswapV3Pool.Swap")
    /\ inv1.ev.txHash = inv2.ev.txHash
    /\ inv1.ev.chainId = inv2.ev.chainId
    /\ ~V3PoolMissing(inv2.ev)
    /\ V3SwapOnPingPool(inv2.ev)
    /\ abs(V3SwapPingRaw(inv2.ev)) = inv1.ev.value
    /\ Has(TransferStore, EventId(inv1.ev))
    /\ TransferStore[EventId(inv1.ev)].poolRelatedType = relation

\* C33: a trade that produces a Transfer from a tracked pool to user U and a
\* Swap with a positive PING leg and recipient U books one buy of the traded
\* amount on U's Account; a trade with a Transfer from U to the pool and a
\* Swap with a negative PING leg books one sell.  The Transfer of the trade
\* has booked the buy (the sell) when the Swap arrives, so the Swap leaves
\* the Account's totalBuys and totalBuyVolume (totalSells and
\* totalSellVolume) as they are.
TradeCountedOnce ==
    [][ /\ ( /\ TradeOf(last, last', POOL_RELATION_BUY)
             /\ V3SwapPingRaw(last'.ev) > 0
             /\ toLowerCase(last.ev.from) = toLowerCase(last'.ev.srcAddress)
             /\ toLowerCase(last.ev.to) = toLowerCase(last'.ev.params.recipient) ) =>
            LET id == <<last.ev.chainId, toLowerCase(last.ev.to)>>
            IN  /\ AccountStore'[id].totalBuys = AccountStore[id].totalBuys
                /\ AccountStore'[id].totalBuyVolume = AccountStore[id].totalBuyVolume
        /\ ( /\ TradeOf(last, last', POOL_RELATION_SELL)
             /\ V3SwapPingRaw(last'.ev) < 0
             /\ toLowerCase(last.ev.to) = toLowerCase(last'.ev.srcAddress)
             /\ last'.ev.txFrom = Some(toLowerCase(last.ev.from)) ) =>
            LET id == <<last.ev.chainId, toLowerCase(last.ev.from)>>
            IN  /\ AccountStore'[id].totalSells = AccountStore[id].totalSells
                /\ AccountStore'[id].totalSellVolume = AccountStore[id].totalSellVolume ]_vars


-----------------------------------------------------------------------------
(* Aggregates against the records they summarize.                           *)

\* Sums over a set of <<key, amount>> pairs, the keys keeping equal amounts apart.
RECURSIVE IntSum(_)
IntSum(pairs) ==
    IF pairs = {} THEN 0
    ELSE LET p == CHOOSE q \in pairs : TRUE IN p[2] + IntSum(pairs \ {p})

RECURSIVE BDSum(_)
BDSum(pairs) ==
    IF pairs = {} THEN ZERO_BD
    ELSE LET p == CHOOSE q \in pairs : TRUE IN BDplus(p[2], BDSum(pairs \ {p}))

TransfersOfChain(chainId) == {id \in DOMAIN TransferStore : TransferStore[id].chainId = chainId}

DailyTokenRowsOfChain(chainId) ==
    {id \in DOMAIN DailyTokenActivityStore : DailyTokenActivityStore[id].chainId = chainId}

\* C34: on every chain, Token.totalTransfers is the number of the chain's
\* Transfer records and the sum of dailyTransfers over the chain's
\* DailyTokenActivity rows, and Token.totalVolume is the sum of the values of
\* these Transfer records; a chain without Token has neither records nor rows.
TokenTotalsMatchRecords ==
    \A chainId \in Chains :
        LET tokenId == <<chainId, toLowerCase(PING_TOKEN_ADDRESS)>>
        IN  IF Has(TokenStore, tokenId)
            THEN /\ TokenStore[tokenId].totalTransfers = Cardinality(TransfersOfChain(chainId))
                 /\ TokenStore[tokenId].totalTransfers =
                        IntSum({<<id, DailyTokenActivityStore[id].dailyTransfers>> :
                                    id \in DailyTokenRowsOfChain(chainId)})
                 /\ BDeq(TokenStore[tokenId].totalVolume,
                         BDSum({<<id, TransferStore[id].value>> : id \in TransfersOfChain(chainId)}))
            ELSE TransfersOfChain(chainId) = {} /\ DailyTokenRowsOfChain(chainId) = {}

\* Chain 8453 has two transfers of different value on different days while
\* chain 1 has a transfer of its own.
TokenTotalsWitness ==
    /\ Has(TokenStore, <<8453, toLowerCase(PING_TOKEN_ADDRESS)>>)
    /\ TokenStore[<<8453, toLowerCase(PING_TOKEN_ADDRESS)>>].totalTransfers = 2
    /\ TokenStore[<<8453, toLowerCase(PING_TOKEN_ADDRESS)>>].totalVolume =
           convertTokenToDecimal(3, TOKEN_DECIMALS)
    /\ Cardinality(DailyTokenRowsOfChain(8453)) = 2
    /\ Cardinality(TransfersOfChain(1)) = 1


SwapsOfPool(poolId) == {id \in DOMAIN SwapStore : SwapStore[id].pool_id = poolId}

DailyRowsOfPool(poolId) == {id \in DOMAIN DailyPoolActivityStore : id[1] = poolId}

-----------------------------------------------------------------------------
(* Invariants of V4 pools.                                                  *)

\* C37: a PoolV4 is flagged active exactly when its liquidity is positive.
PoolV4ActiveIffLiquidity ==
    \A id \in DOMAIN PoolV4Store : PoolV4Store[id].isActive <=> PoolV4Store[id].liquidity > 0

\* A swap has left without liquidity, and inactive, a pool that liquidity had
\* been added to.
PoolV4ActiveWitness ==
    /\ Committed(last, "UniswapV4PoolManager.Swap")
    /\ last.writes = {"PoolV4", "SwapV4"}
    /\ last.ev.params.liquidity = 0
    /\ ~PoolV4Store[<<last.ev.chainId, last.ev.params.id>>].isActive
    /\ \E id \in DOMAIN ModifyLiquidityV4Store :
           /\ ModifyLiquidityV4Store[id].pool_id = <<last.ev.chainId, last.ev.params.id>>
           /\ ModifyLiquidityV4Store[id].liquidityDelta > 0

\* The position a ModifyLiquidityV4 record belongs to.
PositionOf(rec) == <<rec.pool_id, rec.sender, rec.tickLower, rec.tickUpper, rec.salt>>

\* The records of rec's position committed up to and including rec.
PositionRecordsUpTo(rec) ==
    {id \in DOMAIN ModifyLiquidityV4Store :
        /\ PositionOf(ModifyLiquidityV4Store[id]) = PositionOf(rec)
        /\ \/ id = rec.id
           \/ id[2] < rec.id[2]
           \/ id[2] = rec.id[2] /\ id[3] < rec.id[3]}

\* No position has had more liquidity removed than had been added to it.
PositionsSolvent ==
    \A id \in DOMAIN ModifyLiquidityV4Store :
        IntSum({<<k, ModifyLiquidityV4Store[k].liquidityDelta>> :
                    k \in PositionRecordsUpTo(ModifyLiquidityV4Store[id])}) >= 0

\* C38: while no position has had more liquidity removed than added, no
\* PoolV4 has negative liquidity.
PoolV4LiquidityNonNegative ==
    PositionsSolvent => \A id \in DOMAIN PoolV4Store : PoolV4Store[id].liquidity >= 0

\* C39: while no position has had more liquidity removed than added, no
\* PoolV4 has a negative totalValueLockedCurrency0 or totalValueLockedCurrency1.
PoolV4TVLNonNegative ==
    PositionsSolvent =>
        \A id \in DOMAIN PoolV4Store :
            /\ PoolV4Store[id].totalValueLockedCurrency0.m >= 0
            /\ PoolV4Store[id].totalValueLockedCurrency1.m >= 0

=============================================================================
